---- MODULE Spec2Model ----
(***************************************************************************)
(* share-sniffer: the worker pool (internal/workerpool/workerpool.go) and  *)
(* the batch run that drives it (internal/ui/check/func.go, CheckFile).    *)
(*                                                                         *)
(* Strings that the code tests with strings.HasPrefix are sequences of     *)
(* tokens: a registered prefix is a sequence, a URL is a prefix followed   *)
(* by further tokens.                                                      *)
(***************************************************************************)
EXTENDS Integers, Sequences, FiniteSets, TLC

\* ---------------------------------------------------------------- bounds
NumWorkers == 2        \* workers started by Start (the default config has 8)
MaxQueue == 1          \* capacity of taskQueue in the model
ResultQueueSize == 1   \* capacity of resultChan in the model
MaxSubmit == 3         \* Submit calls the free client makes
StopSubmit == 2        \* Submit calls made before Stop() in SpecStop
WaitSubmit == 3        \* Submit calls made before Wait() in SpecWait

LongMaxConcurrent == 1 \* capacity of longTaskSemaphore (the default config has 2)
MaxPanics == 1         \* task bodies that panic in one behaviour
MaxLinks == 2          \* links of a batch run
RunWorkers == 1        \* workers of the pool of a batch run
MaxRetriesArg == 2     \* largest maxRetries a caller passes to DoWithRetry
MaxUrlLen == 2         \* tokens of a URL given to Adapter
MaxNameLen == 3        \* characters of the resource name a strategy returns
MaxTail == 3           \* bytes of any kind at the end of a message
MaxRuns == 2           \* batch runs started from one CheckUI
MaxUiLinks == 2        \* links of the file of one of these runs

\* ------------------------------------------------------- program constants
\* utils.ErrorType
Valid == 0
Unknown == 10
Invalid == 11
Malformed == 12
Timeout == 13
Fatal == 14
Stop == 15
Done == 16
\* CheckFile: maxRetries and the first retryDelay (ms) of the Submit retry loop
maxRetries == 5
RetryDelay == 300
\* config.go: HTTPClientConfig.RetryCount, CheckConfig.RetryInterval (seconds)
RetryCount == 1
RetryInterval == 1
\* utils/result.go: the characters of a message a Result keeps
MsgMaxLen == 48

\* the status texts of utils/result.go (the GUI shows them in Chinese)
ValidTxt == "valid"
UnknownTxt == "unknown"
InvalidTxt == "invalid"
MalformedTxt == "malformed"
TimeoutTxt == "timeout"
FatalTxt == "fatal"
StopTxt == "stopped"
DoingTxt == "doing"

\* Result.Value: nil, or the value task.Func returned. CheckFile's tasks return a
\* taskResult{index, result.Error}; any other unit of work returns OpaqueValue.
Nil == [nil |-> TRUE, index |-> 0, Error |-> 0]
OpaqueValue == [nil |-> FALSE, index |-> 0, Error |-> 0]

\* ------------------------------------------------------------ config.go
Providers ==
  [quark   |-> {<<"https://pan.quark.cn/s/">>},
   xunlei  |-> {<<"https://pan.xunlei.com/s/">>},
   yd      |-> {<<"https://yun.139.com/shareweb/">>}]

GetSupported(provider) == Providers[provider]
GetSupportedXunlei == GetSupported("xunlei")
GetSupportedYd == GetSupported("yd")

HasPrefix(s, prefix) ==
  /\ Len(s) >= Len(prefix)
  /\ SubSeq(s, 1, Len(prefix)) = prefix

\* the URLs tasks are built from: one per provider
URLs ==
  { <<"https://pan.quark.cn/s/", "a1">>,
    <<"https://pan.xunlei.com/s/", "b2">>,
    <<"https://yun.139.com/shareweb/", "c3">> }

\* worker(): the heavy-task test on the task's URL
IsLongTask(url) ==
  \/ \E prefix \in GetSupportedXunlei : HasPrefix(url, prefix)
  \/ \E prefix \in GetSupportedYd : HasPrefix(url, prefix)

VARIABLES
  started,            \* Start() has spawned the workers
  queueSize,          \* cap(taskQueue)
  taskQueue,          \* buffered tasks
  queueClosed,        \* close(taskQueue) happened
  resultChan,         \* buffered results
  resultClosed,       \* close(resultChan) happened
  ctxDone,            \* q.cancel() happened
  longTaskSemaphore,  \* len(longTaskSemaphore)
  wpc,                \* each worker's position in worker()
  wtask,              \* the task a worker holds
  wresult,            \* the Result a worker holds
  recovered,          \* panics of task bodies so far: how many (n), in which worker last (w)
  stopPc,             \* position of the Stop() call
  waitPc,             \* position of the Wait() call
  panicked,           \* an unrecovered runtime panic ended the process
  submitCount,        \* Submit calls made
  submitRet,          \* what the last Submit call returned
  nAccepted,          \* Submit calls that returned true
  nReceived,          \* Results the consumer received
  sawClose,           \* the consumer saw resultChan closed
  \* CheckFile (one batch run)
  links,              \* the URLs read from the file, one per row
  tableData,          \* tableDataWrapper.Data[i][2], the status of row i
  stopChanClosed,     \* close(q.stopChan) happened
  isChecking,         \* q.isChecking
  mainPc,             \* position of CheckFile itself
  idx,                \* i of the submission loop (1-based)
  attempt,            \* attempt of the Submit retry loop
  retryDelay,         \* retryDelay of the Submit retry loop (ms)
  completedCount,     \* completedCount
  processedCount,     \* processedCount of the result loop
  failPc,             \* per row: the goroutine started for a failed submission
  listenerPc,         \* the stop listener goroutine
  monitorPc,          \* the completion monitor goroutine
  resultPc,           \* the result processing goroutine
  cur,                \* the taskResult the result loop is handling
  \* one call of the network layer, of a strategy, of Adapter, of a Result builder
  reqCtx,             \* the ctx of the call: its Err() and where the call was when it fired
  dwr,                \* the frame of DoWithRetry
  chk,                \* the frame of an API-based check (strategy, Result)
  checkers,           \* core.checkers: prefix -> registered checker
  adapterCall,        \* the frame of Adapter
  msgCall,            \* the frame of a Result builder of utils/result.go
  req,                \* a *http.Request whose headers are being set
  auto,               \* the frame of an automation-based check (Xunlei, 139)
  ui                  \* a CheckUI and the goroutines of the runs it has started

poolVars == <<started, queueSize, taskQueue, queueClosed, resultChan, resultClosed,
              ctxDone, longTaskSemaphore, wpc, wtask, wresult, recovered,
              stopPc, waitPc, panicked>>
clientVars == <<submitCount, submitRet, nAccepted, nReceived, sawClose>>
runVars == <<links, tableData, stopChanClosed, isChecking, mainPc, idx, attempt, retryDelay,
             completedCount, processedCount, failPc, listenerPc, monitorPc, resultPc, cur>>
fnVars == <<reqCtx, dwr, chk, checkers, adapterCall, msgCall, req, auto, ui>>
vars == <<poolVars, clientVars, runVars, fnVars>>
\* what an action of the pool leaves alone
poolFrame == <<clientVars, runVars, fnVars>>
\* what a call of the pool's client leaves alone
clientFrame == <<runVars, fnVars>>

Workers == DOMAIN wpc
NoTask == [url |-> <<>>, index |-> 0]
NoResult == [Value |-> Nil]

Alive == panicked = "none"

\* ------------------------------------------------------------ NewWorkerPool
NewWorkerPool(workers, cap) ==
  /\ started = FALSE
  /\ queueSize = cap
  /\ taskQueue = <<>>
  /\ queueClosed = FALSE
  /\ resultChan = <<>>
  /\ resultClosed = FALSE
  /\ ctxDone = FALSE
  /\ longTaskSemaphore = 0
  /\ wpc = [w \in 1..workers |-> "new"]
  /\ wtask = [w \in 1..workers |-> NoTask]
  /\ wresult = [w \in 1..workers |-> NoResult]
  /\ recovered = [n |-> 0, w |-> 0]
  /\ stopPc = "idle"
  /\ waitPc = "idle"
  /\ panicked = "none"

ClientInit ==
  /\ submitCount = 0
  /\ submitRet = "none"
  /\ nAccepted = 0
  /\ nReceived = 0
  /\ sawClose = FALSE

\* no batch run: the pool is driven by a free client
NoRun ==
  /\ links = <<>>
  /\ tableData = <<>>
  /\ stopChanClosed = FALSE
  /\ isChecking = FALSE
  /\ mainPc = "none"
  /\ idx = 0
  /\ attempt = 0
  /\ retryDelay = RetryDelay
  /\ completedCount = 0
  /\ processedCount = 0
  /\ failPc = <<>>
  /\ listenerPc = "off"
  /\ monitorPc = "off"
  /\ resultPc = "off"
  /\ cur = Nil

\* no call of the network layer, of a strategy, of Adapter or of a Result builder
\* is under way
NoCtx == [err |-> "none", during |-> "none"]
NilErr == [kind |-> "nil", Type |-> "", timeout |-> FALSE, Err |-> ""]
NoRet == [resp |-> "none", err |-> NilErr]
NoDwr == [pc |-> "idle", arg |-> 0, maxRetries |-> 0, attempt |-> 0, sent |-> <<>>,
          waits |-> <<>>, lastErr |-> NilErr, ret |-> NoRet, bodies |-> <<>>]
NoChk == [pc |-> "idle", strategy |-> "none", url |-> "none", requests |-> 0,
          err |-> NilErr, Error |-> -1]
NoAdapterCall == [pc |-> "idle"]
NoMsgCall == [pc |-> "idle"]
NoReq == [pc |-> "idle"]
NoAuto == [pc |-> "idle"]
\* a run CheckFile has not started: no pool, no goroutine
NoUiRun ==
  [n |-> 0, queue |-> <<>>, queueClosed |-> FALSE, ctxDone |-> FALSE, results |-> <<>>,
   resultsClosed |-> FALSE, wpc |-> "off", wtask |-> 0,
   lpc |-> "off", lchan |-> 0, mpc |-> "off", rpc |-> "off", cur |-> Nil,
   processed |-> 0, completed |-> 0]
\* the CheckUI after NewCheckUI: not checking, an empty table, no run
NoUi ==
  [pc |-> "idle", stopChan |-> 0, closed |-> {}, isChecking |-> FALSE, nRuns |-> 0,
   data |-> <<>>, locked |-> FALSE, panic |-> "none",
   runs |-> [r \in 1..MaxRuns |-> NoUiRun]]
NoCall ==
  /\ reqCtx = NoCtx
  /\ dwr = NoDwr
  /\ chk = NoChk
  /\ checkers = [prefix \in {} |-> "none"]
  /\ adapterCall = NoAdapterCall
  /\ msgCall = NoMsgCall
  /\ req = NoReq
  /\ auto = NoAuto
  /\ ui = NoUi

Init ==
  /\ NewWorkerPool(NumWorkers, MaxQueue)
  /\ ClientInit
  /\ NoRun
  /\ NoCall

\* ------------------------------------------------------------------- Start
Start ==
  /\ Alive
  /\ ~started
  /\ started' = TRUE
  /\ wpc' = [w \in Workers |-> "select"]
  /\ UNCHANGED <<queueSize, taskQueue, queueClosed, resultChan, resultClosed, ctxDone,
                 longTaskSemaphore, wtask, wresult, recovered, stopPc, waitPc, panicked>>

\* ------------------------------------------------------------------ worker
\* select: case <-q.ctx.Done()
WorkerCtxDone(w) ==
  /\ Alive
  /\ wpc[w] = "select"
  /\ ctxDone
  /\ wpc' = [wpc EXCEPT ![w] = "exited"]
  /\ UNCHANGED <<started, queueSize, taskQueue, queueClosed, resultChan, resultClosed,
                 ctxDone, longTaskSemaphore, wtask, wresult, recovered, stopPc, waitPc,
                 panicked>>

\* select: case task, ok := <-q.taskQueue with !ok
WorkerQueueClosed(w) ==
  /\ Alive
  /\ wpc[w] = "select"
  /\ taskQueue = <<>>
  /\ queueClosed
  /\ wpc' = [wpc EXCEPT ![w] = "exited"]
  /\ UNCHANGED <<started, queueSize, taskQueue, queueClosed, resultChan, resultClosed,
                 ctxDone, longTaskSemaphore, wtask, wresult, recovered, stopPc, waitPc,
                 panicked>>

\* a receive that leaves the task in the queue
WorkerTakeTaskPeek(w) ==
  /\ Alive
  /\ wpc[w] = "select"
  /\ taskQueue # <<>>
  /\ wtask' = [wtask EXCEPT ![w] = Head(taskQueue)]
  /\ wpc' = [wpc EXCEPT ![w] = IF IsLongTask(Head(taskQueue).url) THEN "acquire" ELSE "exec"]
  /\ UNCHANGED <<started, queueSize, taskQueue, queueClosed, resultChan, resultClosed,
                 ctxDone, longTaskSemaphore, wresult, recovered, stopPc, waitPc, panicked>>

\* select: case task, ok := <-q.taskQueue with ok; then the heavy-task test
WorkerTakeTask(w) ==
  /\ Alive
  /\ wpc[w] = "select"
  /\ taskQueue # <<>>
  /\ wtask' = [wtask EXCEPT ![w] = Head(taskQueue)]
  /\ taskQueue' = Tail(taskQueue)
  /\ wpc' = [wpc EXCEPT ![w] = IF IsLongTask(Head(taskQueue).url) THEN "acquire" ELSE "exec"]
  /\ UNCHANGED <<started, queueSize, queueClosed, resultChan, resultClosed, ctxDone,
                 longTaskSemaphore, wresult, recovered, stopPc, waitPc, panicked>>

\* a semaphore send that never blocks
WorkerAcquireUnbounded(w) ==
  /\ Alive
  /\ wpc[w] = "acquire"
  /\ longTaskSemaphore' = longTaskSemaphore + 1
  /\ wpc' = [wpc EXCEPT ![w] = "exec"]
  /\ UNCHANGED <<started, queueSize, taskQueue, queueClosed, resultChan, resultClosed,
                 ctxDone, wtask, wresult, recovered, stopPc, waitPc, panicked>>

\* q.longTaskSemaphore <- struct{}{} : blocks while the semaphore is full
WorkerAcquire(w) ==
  /\ Alive
  /\ wpc[w] = "acquire"
  /\ longTaskSemaphore < LongMaxConcurrent
  /\ longTaskSemaphore' = longTaskSemaphore + 1
  /\ wpc' = [wpc EXCEPT ![w] = "exec"]
  /\ UNCHANGED <<started, queueSize, taskQueue, queueClosed, resultChan, resultClosed,
                 ctxDone, wtask, wresult, recovered, stopPc, waitPc, panicked>>

\* where worker() continues once executeTask has returned
AfterExecute(w) == IF IsLongTask(wtask[w].url) THEN "release" ELSE "send"

\* the positions of a worker inside task.Func
ExecPcs == {"exec", "bodySelect", "bodyAdapter"}

\* executeTask returns Result{Value: value} to worker()
ExecuteTask(w, value) ==
  /\ wresult' = [wresult EXCEPT ![w] = [Value |-> value]]
  /\ wpc' = [wpc EXCEPT ![w] = AfterExecute(w)]
  /\ UNCHANGED <<started, queueSize, taskQueue, queueClosed, resultChan, resultClosed,
                 ctxDone, longTaskSemaphore, wtask, stopPc, waitPc, panicked>>

\* executeTask: task.Func (any unit of work) returned a value
ExecuteTaskReturn(w) ==
  /\ Alive
  /\ wpc[w] = "exec"
  /\ ExecuteTask(w, OpaqueValue)
  /\ UNCHANGED recovered

\* a pool without the deferred recover(): the panic of a task body ends the process
ExecuteTaskNoRecover(w) ==
  /\ Alive
  /\ wpc[w] \in {"exec", "bodyAdapter"}
  /\ recovered.n < MaxPanics
  /\ recovered' = [n |-> recovered.n + 1, w |-> w]
  /\ panicked' = "task panic"
  /\ UNCHANGED <<started, queueSize, taskQueue, queueClosed, resultChan, resultClosed,
                 ctxDone, longTaskSemaphore, wpc, wtask, wresult, stopPc, waitPc>>

\* a worker that releases the semaphore only when the body returned normally
ExecuteTaskRecoverLeak(w) ==
  /\ Alive
  /\ wpc[w] \in {"exec", "bodyAdapter"}
  /\ recovered.n < MaxPanics
  /\ recovered' = [n |-> recovered.n + 1, w |-> w]
  /\ wresult' = [wresult EXCEPT ![w] = [Value |-> Nil]]
  /\ wpc' = [wpc EXCEPT ![w] = "send"]
  /\ UNCHANGED <<started, queueSize, taskQueue, queueClosed, resultChan, resultClosed,
                 ctxDone, longTaskSemaphore, wtask, stopPc, waitPc, panicked>>

\* executeTask: task.Func panicked; the deferred recover() swallows the panic and
\* executeTask returns the zero Result
ExecuteTaskRecover(w) ==
  /\ Alive
  /\ wpc[w] \in {"exec", "bodyAdapter"}
  /\ recovered.n < MaxPanics
  /\ recovered' = [n |-> recovered.n + 1, w |-> w]
  /\ ExecuteTask(w, Nil)

\* a worker that goes on without giving its slot back
WorkerReleaseLeak(w) ==
  /\ Alive
  /\ wpc[w] = "release"
  /\ wpc' = [wpc EXCEPT ![w] = "send"]
  /\ UNCHANGED <<started, queueSize, taskQueue, queueClosed, resultChan, resultClosed,
                 ctxDone, longTaskSemaphore, wtask, wresult, recovered, stopPc, waitPc,
                 panicked>>

\* <-q.longTaskSemaphore
WorkerRelease(w) ==
  /\ Alive
  /\ wpc[w] = "release"
  /\ longTaskSemaphore' = longTaskSemaphore - 1
  /\ wpc' = [wpc EXCEPT ![w] = "send"]
  /\ UNCHANGED <<started, queueSize, taskQueue, queueClosed, resultChan, resultClosed,
                 ctxDone, wtask, wresult, recovered, stopPc, waitPc, panicked>>

\* select: case q.resultChan <- result (a send on a closed channel panics)
WorkerSend(w) ==
  /\ Alive
  /\ wpc[w] = "send"
  /\ IF resultClosed
       THEN /\ panicked' = "send on closed channel"
            /\ UNCHANGED <<resultChan, wpc, wtask, wresult>>
       ELSE /\ Len(resultChan) < ResultQueueSize
            /\ resultChan' = Append(resultChan, wresult[w])
            /\ wpc' = [wpc EXCEPT ![w] = "select"]
            /\ wtask' = [wtask EXCEPT ![w] = NoTask]
            /\ wresult' = [wresult EXCEPT ![w] = NoResult]
            /\ UNCHANGED panicked
  /\ UNCHANGED <<started, queueSize, taskQueue, queueClosed, resultClosed, ctxDone,
                 longTaskSemaphore, recovered, stopPc, waitPc>>

\* a result send without the ctx.Done() case: nothing is ever dropped
WorkerDropNever(w) ==
  /\ FALSE
  /\ UNCHANGED vars

\* select: case <-q.ctx.Done() : the result is dropped
WorkerDrop(w) ==
  /\ Alive
  /\ wpc[w] = "send"
  /\ ctxDone
  /\ wpc' = [wpc EXCEPT ![w] = "select"]
  /\ wtask' = [wtask EXCEPT ![w] = NoTask]
  /\ wresult' = [wresult EXCEPT ![w] = NoResult]
  /\ UNCHANGED <<started, queueSize, taskQueue, queueClosed, resultChan, resultClosed,
                 ctxDone, longTaskSemaphore, recovered, stopPc, waitPc, panicked>>

\* ------------------------------------------------------------------ Submit
\* a blocking send in Submit: q.taskQueue <- task without the default case
SubmitSendBlocking(task) ==
  IF queueClosed
    THEN /\ panicked' = "send on closed channel"
         /\ UNCHANGED <<taskQueue, submitRet, nAccepted>>
    ELSE /\ UNCHANGED panicked
         /\ Len(taskQueue) < queueSize
         /\ taskQueue' = Append(taskQueue, task)
         /\ submitRet' = "true"
         /\ nAccepted' = nAccepted + 1

\* the non-blocking send of Submit; a send on a closed channel panics
SubmitSend(task) ==
  IF queueClosed
    THEN /\ panicked' = "send on closed channel"
         /\ UNCHANGED <<taskQueue, submitRet, nAccepted>>
    ELSE /\ UNCHANGED panicked
         /\ IF Len(taskQueue) < queueSize
              THEN /\ taskQueue' = Append(taskQueue, task)
                   /\ submitRet' = "true"
                   /\ nAccepted' = nAccepted + 1
              ELSE /\ submitRet' = "false"
                   /\ UNCHANGED <<taskQueue, nAccepted>>

Submit(url) ==
  /\ Alive
  /\ submitCount < MaxSubmit
  /\ submitCount' = submitCount + 1
  /\ SubmitSend([url |-> url, index |-> 0])
  /\ UNCHANGED <<started, queueSize, queueClosed, resultChan, resultClosed, ctxDone,
                 longTaskSemaphore, wpc, wtask, wresult, recovered, stopPc, waitPc,
                 nReceived, sawClose>>

\* -------------------------------------------------------------------- Stop
AllWorkersExitedUnwaited == TRUE

AllWorkersExited == \A w \in Workers : wpc[w] = "exited"

CloseTaskQueue ==
  IF queueClosed
    THEN panicked' = "close of closed channel" /\ UNCHANGED queueClosed
    ELSE queueClosed' = TRUE /\ UNCHANGED panicked

CloseResultChan ==
  IF resultClosed
    THEN panicked' = "close of closed channel" /\ UNCHANGED resultClosed
    ELSE resultClosed' = TRUE /\ UNCHANGED panicked

\* q.cancel()
StopCancel ==
  /\ Alive
  /\ started
  /\ stopPc = "idle"
  /\ ctxDone' = TRUE
  /\ stopPc' = "closeQueue"
  /\ UNCHANGED <<started, queueSize, taskQueue, queueClosed, resultChan, resultClosed,
                 longTaskSemaphore, wpc, wtask, wresult, recovered, waitPc, panicked>>

\* close(q.taskQueue)
StopCloseQueue ==
  /\ Alive
  /\ stopPc = "closeQueue"
  /\ CloseTaskQueue
  /\ stopPc' = "wgWait"
  /\ UNCHANGED <<started, queueSize, taskQueue, resultChan, resultClosed, ctxDone,
                 longTaskSemaphore, wpc, wtask, wresult, recovered, waitPc>>

\* q.wg.Wait()
StopWgWait ==
  /\ Alive
  /\ stopPc = "wgWait"
  /\ AllWorkersExited
  /\ stopPc' = "closeResults"
  /\ UNCHANGED <<started, queueSize, taskQueue, queueClosed, resultChan, resultClosed,
                 ctxDone, longTaskSemaphore, wpc, wtask, wresult, recovered, waitPc,
                 panicked>>

\* close(q.resultChan)
StopCloseResults ==
  /\ Alive
  /\ stopPc = "closeResults"
  /\ CloseResultChan
  /\ stopPc' = "done"
  /\ UNCHANGED <<started, queueSize, taskQueue, queueClosed, resultChan, ctxDone,
                 longTaskSemaphore, wpc, wtask, wresult, recovered, waitPc>>

\* -------------------------------------------------------------------- Wait
\* a Wait() that cancels the run-scope as Stop() does
WaitCloseQueueCancel ==
  /\ Alive
  /\ started
  /\ waitPc = "idle"
  /\ CloseTaskQueue
  /\ ctxDone' = TRUE
  /\ waitPc' = "wgWait"
  /\ UNCHANGED <<started, queueSize, taskQueue, resultChan, resultClosed,
                 longTaskSemaphore, wpc, wtask, wresult, recovered, stopPc>>

\* close(q.taskQueue)
WaitCloseQueue ==
  /\ Alive
  /\ started
  /\ waitPc = "idle"
  /\ CloseTaskQueue
  /\ waitPc' = "wgWait"
  /\ UNCHANGED <<started, queueSize, taskQueue, resultChan, resultClosed, ctxDone,
                 longTaskSemaphore, wpc, wtask, wresult, recovered, stopPc>>

\* q.wg.Wait()
WaitWgWait ==
  /\ Alive
  /\ waitPc = "wgWait"
  /\ AllWorkersExited
  /\ waitPc' = "closeResults"
  /\ UNCHANGED <<started, queueSize, taskQueue, queueClosed, resultChan, resultClosed,
                 ctxDone, longTaskSemaphore, wpc, wtask, wresult, recovered, stopPc,
                 panicked>>

\* close(q.resultChan)
WaitCloseResults ==
  /\ Alive
  /\ waitPc = "closeResults"
  /\ CloseResultChan
  /\ waitPc' = "done"
  /\ UNCHANGED <<started, queueSize, taskQueue, queueClosed, resultChan, ctxDone,
                 longTaskSemaphore, wpc, wtask, wresult, recovered, stopPc>>

\* --------------------------------------------------------------- Results()
\* a consumer receives from Results(): a value, or the closed-and-drained signal
Receive ==
  /\ Alive
  /\ ~sawClose
  /\ IF resultChan # <<>>
       THEN /\ resultChan' = Tail(resultChan)
            /\ nReceived' = nReceived + 1
            /\ UNCHANGED sawClose
       ELSE /\ resultClosed
            /\ sawClose' = TRUE
            /\ UNCHANGED <<resultChan, nReceived>>
  /\ UNCHANGED <<started, queueSize, taskQueue, queueClosed, resultClosed, ctxDone,
                 longTaskSemaphore, wpc, wtask, wresult, recovered, stopPc, waitPc,
                 panicked, submitCount, submitRet, nAccepted>>

\* ------------------------------------------------- the pool and a free client
\* The free client follows the pool's lifecycle: it tears the pool down once,
\* by Stop() or by Wait(); it may call Submit at any time.
ClientStop == waitPc = "idle" /\ StopCancel
ClientWait == stopPc = "idle" /\ WaitCloseQueue

Next ==
  \/ Start /\ UNCHANGED poolFrame
  \/ \E w \in Workers : WorkerCtxDone(w) /\ UNCHANGED poolFrame
  \/ \E w \in Workers : WorkerQueueClosed(w) /\ UNCHANGED poolFrame
  \/ \E w \in Workers : WorkerTakeTask(w) /\ UNCHANGED poolFrame
  \/ \E w \in Workers : WorkerAcquire(w) /\ UNCHANGED poolFrame
  \/ \E w \in Workers : ExecuteTaskReturn(w) /\ UNCHANGED poolFrame
  \/ \E w \in Workers : ExecuteTaskRecover(w) /\ UNCHANGED poolFrame
  \/ \E w \in Workers : WorkerRelease(w) /\ UNCHANGED poolFrame
  \/ \E w \in Workers : WorkerSend(w) /\ UNCHANGED poolFrame
  \/ \E w \in Workers : WorkerDrop(w) /\ UNCHANGED poolFrame
  \/ ClientStop /\ UNCHANGED poolFrame
  \/ StopCloseQueue /\ UNCHANGED poolFrame
  \/ StopWgWait /\ UNCHANGED poolFrame
  \/ StopCloseResults /\ UNCHANGED poolFrame
  \/ ClientWait /\ UNCHANGED poolFrame
  \/ WaitWgWait /\ UNCHANGED poolFrame
  \/ WaitCloseResults /\ UNCHANGED poolFrame
  \/ \E url \in URLs : Submit(url) /\ UNCHANGED clientFrame
  \/ Receive /\ UNCHANGED clientFrame

Spec == Init /\ [][Next]_vars

\* ------------------------------------ the pool stopped by a disciplined client
\* The client of this specification makes no Submit call once teardown has begun
\* (CheckFile ends its submission loop before it can call Stop) and need not
\* receive at all. Workers and Stop() are scheduled fairly; a task body is only
\* assumed to return once its context is cancelled.
SubmitBeforeTeardown(url) ==
  /\ stopPc = "idle"
  /\ submitCount < StopSubmit
  /\ Submit(url)

WorkerStep(w) ==
  \/ WorkerCtxDone(w)
  \/ WorkerQueueClosed(w)
  \/ WorkerTakeTask(w)
  \/ WorkerAcquire(w)
  \/ WorkerRelease(w)
  \/ WorkerSend(w)
  \/ WorkerDrop(w)

BodyEnds(w) == ExecuteTaskReturn(w) \/ ExecuteTaskRecover(w)

StopStep == StopCancel \/ StopCloseQueue \/ StopWgWait \/ StopCloseResults

NextStop ==
  \/ Start /\ UNCHANGED poolFrame
  \/ \E w \in Workers : WorkerCtxDone(w) /\ UNCHANGED poolFrame
  \/ \E w \in Workers : WorkerQueueClosed(w) /\ UNCHANGED poolFrame
  \/ \E w \in Workers : WorkerTakeTask(w) /\ UNCHANGED poolFrame
  \/ \E w \in Workers : WorkerAcquire(w) /\ UNCHANGED poolFrame
  \/ \E w \in Workers : ExecuteTaskReturn(w) /\ UNCHANGED poolFrame
  \/ \E w \in Workers : ExecuteTaskRecover(w) /\ UNCHANGED poolFrame
  \/ \E w \in Workers : WorkerRelease(w) /\ UNCHANGED poolFrame
  \/ \E w \in Workers : WorkerSend(w) /\ UNCHANGED poolFrame
  \/ \E w \in Workers : WorkerDrop(w) /\ UNCHANGED poolFrame
  \/ StopCancel /\ UNCHANGED poolFrame
  \/ StopCloseQueue /\ UNCHANGED poolFrame
  \/ StopWgWait /\ UNCHANGED poolFrame
  \/ StopCloseResults /\ UNCHANGED poolFrame
  \/ \E url \in URLs : SubmitBeforeTeardown(url) /\ UNCHANGED clientFrame
  \/ Receive /\ UNCHANGED clientFrame

SpecStop ==
  /\ Init
  /\ [][NextStop]_vars
  /\ WF_vars(StopStep /\ UNCHANGED poolFrame)
  /\ \A w \in 1..NumWorkers : WF_vars(WorkerStep(w) /\ UNCHANGED poolFrame)
  /\ \A w \in 1..NumWorkers :
       WF_vars(ctxDone /\ BodyEnds(w) /\ UNCHANGED poolFrame)

\* ------------------------------------ the pool drained by Wait() and a consumer
\* The client submits, then calls Wait(); a consumer keeps receiving from
\* Results(). Workers, Wait() and the consumer are scheduled fairly and every
\* task body returns.
SubmitBeforeWait(url) ==
  /\ waitPc = "idle"
  /\ submitCount < WaitSubmit
  /\ Submit(url)

WaitStep == WaitCloseQueue \/ WaitWgWait \/ WaitCloseResults

NextWait ==
  \/ Start /\ UNCHANGED poolFrame
  \/ \E w \in Workers : WorkerQueueClosed(w) /\ UNCHANGED poolFrame
  \/ \E w \in Workers : WorkerTakeTask(w) /\ UNCHANGED poolFrame
  \/ \E w \in Workers : WorkerAcquire(w) /\ UNCHANGED poolFrame
  \/ \E w \in Workers : ExecuteTaskReturn(w) /\ UNCHANGED poolFrame
  \/ \E w \in Workers : WorkerRelease(w) /\ UNCHANGED poolFrame
  \/ \E w \in Workers : WorkerSend(w) /\ UNCHANGED poolFrame
  \/ WaitCloseQueue /\ UNCHANGED poolFrame
  \/ WaitWgWait /\ UNCHANGED poolFrame
  \/ WaitCloseResults /\ UNCHANGED poolFrame
  \/ \E url \in URLs : SubmitBeforeWait(url) /\ UNCHANGED clientFrame
  \/ Receive /\ UNCHANGED clientFrame

SpecWait ==
  /\ Init
  /\ [][NextWait]_vars
  /\ WF_vars(WaitStep /\ UNCHANGED poolFrame)
  /\ WF_vars(Receive /\ UNCHANGED clientFrame)
  /\ \A w \in 1..NumWorkers : WF_vars(WorkerStep(w) /\ UNCHANGED poolFrame)
  /\ \A w \in 1..NumWorkers : WF_vars(ExecuteTaskReturn(w) /\ UNCHANGED poolFrame)

\* ============================================================ network layer
\* errors: an *AppError of internal/errors (Type, the wrapped Err), a context
\* error (ctx.Err()), the *url.Error client.Do returns (a net.Error with its
\* Timeout()), or a plain fmt.Errorf error. Err names what an AppError wraps.
ErrTypeRequest == "REQUEST_ERROR"
ErrTypeResponse == "RESPONSE_ERROR"
ErrTypeTimeout == "TIMEOUT_ERROR"
ErrTypeNetwork == "NETWORK_ERROR"
ErrTypeStatusCode == "STATUS_CODE_ERROR"

ErrName(err) == IF err.kind = "AppError" THEN err.Type ELSE err.kind
AppError(type, err) == [kind |-> "AppError", Type |-> type, timeout |-> FALSE, Err |-> ErrName(err)]
NewRequestError(err) == AppError(ErrTypeRequest, err)
NewResponseErrorWithStatus == AppError(ErrTypeResponse, NilErr)
NewNetworkError(err) == AppError(ErrTypeNetwork, err)
NewTimeoutError == AppError(ErrTypeTimeout, NilErr)
NewStatusCodeError == AppError(ErrTypeStatusCode, NilErr)
IsTimeoutError(err) == err.kind = "AppError" /\ err.Type = ErrTypeTimeout
IsStatusCodeError(err) == err.kind = "AppError" /\ err.Type = ErrTypeStatusCode
\* ctx.Err(): context.DeadlineExceeded or context.Canceled
CtxErr(e) == [kind |-> "ctx", Type |-> e, timeout |-> (e = "DeadlineExceeded"), Err |-> ""]
UrlError(timeout, err) == [kind |-> "url", Type |-> "", timeout |-> timeout, Err |-> ErrName(err)]
PlainError == [kind |-> "plain", Type |-> "", timeout |-> FALSE, Err |-> ""]
\* lastErr.(net.Error): the types with Timeout() and Temporary()
IsNetError(err) == err.kind \in {"url", "ctx"}

\* what client.Do gives while the context is live: a response (200 with business
\* code 0, 200 with another business code, 404, 403, 500) or a transport error
\* (the client's Timeout exceeded, or another network error)
Responses == {"ok200", "biz200", "s404", "s403", "s500"}
TransportOutcomes == Responses \cup {"timeout", "neterr"}
StatusCode(resp) ==
  IF resp \in {"ok200", "biz200"} THEN 200
  ELSE IF resp = "s404" THEN 404
  ELSE IF resp = "s403" THEN 403
  ELSE 500
TransportError(outcome) ==
  IF outcome = "timeout" THEN UrlError(TRUE, NilErr)
  ELSE IF outcome = "neterr" THEN UrlError(FALSE, NilErr)
  ELSE NilErr

\* resp.Body of a response: the bytes not yet read from it, and whether it is
\* closed. resp.Body.Close() closes it and reads nothing.
Bodies == {[unread |-> n, closed |-> FALSE] : n \in 0..1}
BodyClose(body) == [body EXCEPT !.closed = TRUE]

\* a backoff that does not grow
BackoffFixed(n) == RetryInterval
\* retryInterval := config.GetRetryInterval() * time.Duration(attempt)
Backoff(n) == RetryInterval * n

\* the classification after the loop
Classify(lastErr) ==
  IF IsNetError(lastErr)
    THEN IF lastErr.timeout THEN NewTimeoutError ELSE NewNetworkError(lastErr)
    ELSE NewRequestError(lastErr)

httpFrame == <<poolVars, clientVars, runVars, checkers, adapterCall, msgCall, req, auto, ui>>

\* a DoWithRetry that takes maxRetries as it is given
DwrEnterAsGiven(arg) ==
  [NoDwr EXCEPT !.pc = "send", !.arg = arg, !.maxRetries = arg]
\* DoWithRetry(ctx, req, maxRetries) is entered
DwrEnter(arg) ==
  [NoDwr EXCEPT !.pc = "send", !.arg = arg,
                !.maxRetries = IF arg <= 0 THEN RetryCount ELSE arg]

\* the loop goes to its next iteration, or ends with the classified last error
DwrContinue(d) ==
  IF d.attempt + 1 <= d.maxRetries
    THEN [d EXCEPT !.attempt = d.attempt + 1, !.pc = "backoff"]
    ELSE [d EXCEPT !.attempt = d.attempt + 1, !.pc = "returned",
                   !.ret = [resp |-> "none", err |-> Classify(d.lastErr)]]

\* a backoff that sleeps without listening to the context
DwrBackoffSleep ==
  /\ dwr.pc = "backoff"
  /\ dwr' = [dwr EXCEPT !.pc = "send", !.waits = Append(dwr.waits, Backoff(dwr.attempt))]
  /\ UNCHANGED <<reqCtx, chk, httpFrame>>
\* attempt > 0: select { <-ctx.Done(): return ctx.Err(); <-time.After(retryInterval) }
\* The interval is at least RetryInterval (one second), so the timer is never
\* ready when the select is entered: a context cancelled before the timer fires
\* is the one case that can proceed. A cancellation after the timer fired is
\* CtxFire at "send".
DwrBackoff ==
  /\ dwr.pc = "backoff"
  /\ \/ /\ reqCtx.err # "none"
        /\ dwr' = [dwr EXCEPT !.pc = "returned",
                               !.ret = [resp |-> "none", err |-> CtxErr(reqCtx.err)]]
     \/ /\ reqCtx.err = "none"
        /\ dwr' = [dwr EXCEPT !.pc = "send", !.waits = Append(dwr.waits, Backoff(dwr.attempt))]
  /\ UNCHANGED <<reqCtx, chk, httpFrame>>

\* a loop that takes no status for a server error
IsServerErrorNever(outcome) == FALSE
\* resp.StatusCode >= 500 && resp.StatusCode < 600
IsServerError(outcome) == StatusCode(outcome) >= 500 /\ StatusCode(outcome) < 600

\* client.Do(req.WithContext(ctx)) and what the loop does with its outcome
DwrSendOutcome(outcome, err) ==
  LET d == [dwr EXCEPT !.sent = Append(dwr.sent, outcome)] IN
    IF err = NilErr
      THEN IF IsServerError(outcome)
             THEN \E body \in Bodies :
                    dwr' = DwrContinue([d EXCEPT !.lastErr = NewResponseErrorWithStatus,
                                                 !.bodies = Append(d.bodies, BodyClose(body))])
             ELSE dwr' = [d EXCEPT !.pc = "returned", !.ret = [resp |-> outcome, err |-> NilErr]]
      ELSE IF reqCtx.err # "none"
             THEN dwr' = [d EXCEPT !.pc = "returned", !.lastErr = err,
                                   !.ret = [resp |-> "none", err |-> CtxErr(reqCtx.err)]]
             ELSE dwr' = DwrContinue([d EXCEPT !.lastErr = err])

DwrSend ==
  /\ dwr.pc = "send"
  /\ IF reqCtx.err # "none"
       THEN DwrSendOutcome("ctx", UrlError(reqCtx.err = "DeadlineExceeded", CtxErr(reqCtx.err)))
       ELSE \E outcome \in TransportOutcomes : DwrSendOutcome(outcome, TransportError(outcome))
  /\ UNCHANGED <<reqCtx, chk, httpFrame>>

\* a caller other than a strategy calls DoWithRetry
DwrDirect(arg) ==
  /\ dwr.pc = "idle"
  /\ chk.pc = "idle"
  /\ dwr' = DwrEnter(arg)
  /\ UNCHANGED <<reqCtx, chk, httpFrame>>

\* the context of the call is cancelled, or passes its deadline
CtxFire(e) ==
  /\ reqCtx.err = "none"
  /\ dwr.pc \in {"backoff", "send"} \/ (dwr.pc = "returned" /\ chk.pc = "request")
  /\ reqCtx' = [err |-> e, during |-> dwr.pc]
  /\ UNCHANGED <<dwr, chk, httpFrame>>

\* ------------------------------------------------- API-based checks (strategies)
\* quarkRequest: what it returns for the outcome of DoWithRetry
QuarkRequest(ret, ctxErr) ==
  IF ret.err # NilErr
    THEN IF ctxErr = "DeadlineExceeded"
           THEN [resp |-> "none", err |-> NewTimeoutError]
           ELSE [resp |-> "none", err |-> NewRequestError(ret.err)]
    ELSE IF StatusCode(ret.resp) = 404
           THEN [resp |-> "none", err |-> NewStatusCodeError]
           ELSE IF StatusCode(ret.resp) # 200
                  THEN [resp |-> "none", err |-> PlainError]
                  ELSE [resp |-> ret.resp, err |-> NilErr]

\* checkQuark: the outcome for what quarkRequest returned
CheckQuark(r) ==
  IF r.err # NilErr
    THEN IF IsTimeoutError(r.err) THEN Timeout
         ELSE IF IsStatusCodeError(r.err) THEN Invalid
         ELSE Fatal
    ELSE IF r.resp # "ok200" THEN Invalid ELSE Valid

\* ucRequest: the error of DoWithRetry is returned as it is
UcRequest(ret, ctxErr) ==
  IF ret.err # NilErr
    THEN [resp |-> "none", err |-> ret.err]
    ELSE IF StatusCode(ret.resp) # 200
           THEN [resp |-> "none", err |-> PlainError]
           ELSE [resp |-> ret.resp, err |-> NilErr]

\* checkUc
CheckUc(r) ==
  IF r.err # NilErr
    THEN IF IsTimeoutError(r.err) THEN Timeout ELSE Fatal
    ELSE IF r.resp = "ok200" THEN Valid ELSE Invalid

Strategies == {"quark", "uc", "baidu"}

\* the URLs a check is given, by their shape: a share link with its resource id,
\* a URL of the provider with no resource id in its path, a string url.Parse
\* rejects
UrlShapes == {"share", "noid", "unparsable"}

\* the validation each check starts with: extractParamsQuark and extractParamsUc
\* match the URL against the provider's pattern and need the resource id;
\* checkBaidu only parses the URL
Validate(strategy, url) ==
  IF strategy = "baidu" THEN url # "unparsable" ELSE url = "share"
\* the maxRetries each strategy passes to DoWithRetry
StrategyRetries(strategy) == IF strategy = "quark" THEN RetryCount ELSE 0

\* the check that sends its request whatever the URL is
CheckStartUnvalidated(strategy, url) ==
  /\ chk.pc = "idle"
  /\ dwr.pc = "idle"
  /\ chk' = [chk EXCEPT !.pc = "request", !.strategy = strategy, !.url = url]
  /\ dwr' = IF strategy = "baidu" THEN dwr ELSE DwrEnter(StrategyRetries(strategy))
  /\ UNCHANGED <<reqCtx, httpFrame>>
\* Check(ctx, url): the URL is validated, ErrorMalformed is returned for one that
\* fails; otherwise the request function is entered
CheckStart(strategy, url) ==
  /\ chk.pc = "idle"
  /\ dwr.pc = "idle"
  /\ IF Validate(strategy, url)
       THEN /\ chk' = [chk EXCEPT !.pc = "request", !.strategy = strategy, !.url = url]
            /\ dwr' = IF strategy = "baidu" THEN dwr ELSE DwrEnter(StrategyRetries(strategy))
       ELSE /\ chk' = [chk EXCEPT !.pc = "done", !.strategy = strategy, !.url = url,
                                  !.Error = Malformed]
            /\ dwr' = dwr
  /\ UNCHANGED <<reqCtx, httpFrame>>

\* checkBaidu: step1Request, step2Request, step3Request, each one request with a
\* client of its own; a step that fails ends the check, as does a first step
\* that finds the share expired
BaiduStep(outcome) ==
  /\ chk.pc = "request"
  /\ chk.strategy = "baidu"
  /\ outcome = "expired" => chk.requests = 0
  /\ chk' = [chk EXCEPT
               !.requests = chk.requests + 1,
               !.pc = IF outcome = "ok" /\ chk.requests < 2 THEN "request" ELSE "done",
               !.Error = CASE outcome = "ok" -> IF chk.requests < 2 THEN -1 ELSE Valid
                           [] outcome = "expired" -> Invalid
                           [] outcome = "timeout" -> Timeout
                           [] OTHER -> Fatal]
  /\ UNCHANGED <<reqCtx, dwr, httpFrame>>

\* DoWithRetry has returned: the request function and the check finish
CheckReturn ==
  /\ chk.pc = "request"
  /\ dwr.pc = "returned"
  /\ LET r == IF chk.strategy = "quark"
                THEN QuarkRequest(dwr.ret, reqCtx.err)
                ELSE UcRequest(dwr.ret, reqCtx.err) IN
       chk' = [chk EXCEPT !.pc = "done", !.err = r.err,
                          !.Error = IF chk.strategy = "quark" THEN CheckQuark(r) ELSE CheckUc(r)]
  /\ UNCHANGED <<reqCtx, dwr, httpFrame>>

NextHttp ==
  \/ \E arg \in 0..MaxRetriesArg : DwrDirect(arg)
  \/ \E strategy \in Strategies, url \in UrlShapes : CheckStart(strategy, url)
  \/ \E outcome \in {"ok", "expired", "timeout", "fail"} : BaiduStep(outcome)
  \/ DwrBackoff
  \/ DwrSend
  \/ \E e \in {"DeadlineExceeded", "Canceled"} : CtxFire(e)
  \/ CheckReturn

SpecHttp == Init /\ [][NextHttp]_vars

\* ============================================================ strings (utils)
\* A Go string is a sequence of bytes. The bytes of the model: a lead byte
\* followed by a continuation byte is one two-byte character; a lead byte with
\* no continuation after it, or a continuation byte on its own, is invalid
\* UTF-8; every other byte is a one-byte character.
LeadBytes == {"L", "M"}
ContBytes == {"c"}
RuneError == [valid |-> FALSE, width |-> 1, bytes |-> <<>>]

\* the character that starts at byte i (1-based) of str, as utf8.DecodeRune
\* decodes it: invalid UTF-8 decodes to U+FFFD, consuming one byte
DecodeRune(str, i) ==
  IF str[i] \in LeadBytes
    THEN IF i < Len(str) /\ str[i + 1] \in ContBytes
           THEN [valid |-> TRUE, width |-> 2, bytes |-> <<str[i], str[i + 1]>>]
           ELSE RuneError
    ELSE IF str[i] \in ContBytes
           THEN RuneError
           ELSE [valid |-> TRUE, width |-> 1, bytes |-> <<str[i]>>]

\* utf8.RuneLen(r): the bytes the encoding of r takes; U+FFFD takes three
RuneLen(r) == IF r.valid THEN r.width ELSE 3

\* the byte offsets (0-based) a "for i := range str" visits, from offset `from`
RECURSIVE RangeFrom(_, _)
RangeFrom(str, from) ==
  IF from >= Len(str)
    THEN <<>>
    ELSE <<from>> \o RangeFrom(str, from + DecodeRune(str, from + 1).width)
Range(str) == RangeFrom(str, 0)

\* []rune(str)
Runes(str) == [k \in 1..Len(Range(str)) |-> DecodeRune(str, Range(str)[k] + 1)]

\* utf8.RuneCountInString(str): the length of str in characters
RuneCountInString(str) == Len(Range(str))

\* strings.Replace(str, old, "", 1): the first occurrence of old is removed
ReplaceFirst(str, old) ==
  LET at == {i \in 1..(Len(str) - Len(old) + 1) : SubSeq(str, i, i + Len(old) - 1) = old}
  IN IF at = {}
       THEN str
       ELSE LET i == CHOOSE j \in at : \A k \in at : j <= k
            IN SubSeq(str, 1, i - 1) \o SubSeq(str, i + Len(old), Len(str))

IsSpace(b) == b \in {" ", "\t", "\n"}

\* strings.TrimSpace(s), and the mutant that trims nothing
TrimSpaceNone(s) == s
TrimSpace(s) ==
  LET keep == {i \in 1..Len(s) : ~IsSpace(s[i])}
  IN IF keep = {}
       THEN <<>>
       ELSE SubSeq(s, CHOOSE i \in keep : \A j \in keep : i <= j,
                      CHOOSE i \in keep : \A j \in keep : j <= i)

Marker == <<".", ".", ".">>

\* Substr(str, length, prefix) of internal/utils/text.go. The loop counts the
\* characters up to `length` and leaves in endIndex the offset of the last one
\* counted plus the RuneLen of that character; str[:endIndex] panics when
\* endIndex is beyond the string.
SubstrEnd(str, charCount) ==
  IF charCount = 0
    THEN 0
    ELSE Range(str)[charCount] + RuneLen(Runes(str)[charCount])
Substr(str, length, prefix) ==
  LET s == IF 0 < Len(prefix) THEN ReplaceFirst(str, prefix) ELSE str
      n == RuneCountInString(s)
      charCount == IF length <= 0 THEN 0 ELSE IF n < length THEN n ELSE length
      endIndex == SubstrEnd(s, charCount)
  IN IF charCount < length
       THEN [panic |-> FALSE, str |-> s]
       ELSE IF endIndex > Len(s)
              THEN [panic |-> TRUE, str |-> <<>>]
              ELSE [panic |-> FALSE, str |-> SubSeq(s, 1, endIndex) \o Marker]

\* ------------------------------------------------------ Result (utils/result.go)
Chars(n, b) == [i \in 1..n |-> b]

ErrorToMsg(error) ==
  CASE error = Valid     -> <<"v", "a", "l", "i", "d">>
    [] error = Unknown   -> <<"u", "n", "k", "n", "o", "w", "n">>
    [] error = Invalid   -> <<"i", "n", "v", "a", "l", "i", "d">>
    [] error = Malformed -> <<"m", "a", "l", "f", "o", "r", "m", "e", "d">>
    [] error = Timeout   -> <<"t", "i", "m", "e", "o", "u", "t">>
    [] OTHER             -> <<"s", "e", "l", "f", " ", "d", "e", "f", "i", "n", "e", "d">>

\* a Result, or the panic of the Substr call that was building its Msg
Result(error, msg, url, name) ==
  [panic |-> msg.panic, Error |-> error, Msg |-> msg.str,
   Data |-> [URL |-> url, Name |-> name, Elapsed |-> 0]]
MsgOr(msg, default) ==
  IF msg = <<>>
    THEN [panic |-> FALSE, str |-> default]
    ELSE Substr(msg, MsgMaxLen, <<>>)

ErrorMalformed(url, msg) == Result(Malformed, MsgOr(msg, ErrorToMsg(Malformed)), url, <<>>)
ErrorTimeout == Result(Timeout, [panic |-> FALSE, str |-> ErrorToMsg(Timeout)], <<>>, <<>>)
ErrorUnknown(msg) == Result(Unknown, MsgOr(msg, ErrorToMsg(Unknown)), <<>>, <<>>)
ErrorValid(name) == Result(Valid, [panic |-> FALSE, str |-> ErrorToMsg(Valid)], <<>>, name)
ErrorInvalid(msg) == Result(Invalid, MsgOr(msg, ErrorToMsg(Invalid)), <<>>, <<>>)
ErrorFatal(msg) == Result(Fatal, MsgOr(msg, ErrorToMsg(Unknown)), <<>>, <<>>)

MsgBuilders == {"ErrorMalformed", "ErrorUnknown", "ErrorInvalid", "ErrorFatal"}
Build(builder, msg) ==
  CASE builder = "ErrorMalformed" -> ErrorMalformed(<<>>, msg)
    [] builder = "ErrorUnknown"   -> ErrorUnknown(msg)
    [] builder = "ErrorInvalid"   -> ErrorInvalid(msg)
    [] builder = "ErrorFatal"     -> ErrorFatal(msg)

\* the messages given to the builders: ASCII text of a length around MsgMaxLen,
\* or none, followed by up to MaxTail bytes of any kind
MsgBytes == {"a", "L", "c"}
RECURSIVE SeqsUpTo(_, _)
SeqsUpTo(S, n) ==
  IF n = 0
    THEN {<<>>}
    ELSE LET shorter == SeqsUpTo(S, n - 1)
         IN shorter \cup {Append(s, x) : s \in {t \in shorter : Len(t) = n - 1}, x \in S}
MsgPads == {0, MsgMaxLen - 1}
Msgs == {Chars(p, "a") \o t : p \in MsgPads, t \in SeqsUpTo(MsgBytes, MaxTail)}

msgFrame == <<poolVars, clientVars, runVars, reqCtx, dwr, chk, checkers, adapterCall, req, auto, ui>>

\* one of the four builders is called with a message, and returns or panics
MsgCall(builder, msg) ==
  /\ msgCall.pc = "idle"
  /\ LET r == Build(builder, msg)
     IN msgCall' = [pc |-> IF r.panic THEN "panicked" ELSE "returned",
                    builder |-> builder, msg |-> msg, result |-> r]
  /\ UNCHANGED msgFrame

\* the caller has the Result: the next call can be made
MsgDone ==
  /\ msgCall.pc # "idle"
  /\ msgCall' = NoMsgCall
  /\ UNCHANGED msgFrame

NextMsg ==
  \/ \E builder \in MsgBuilders, msg \in Msgs : MsgCall(builder, msg)
  \/ MsgDone

SpecMsg == Init /\ [][NextMsg]_vars

\* ======================================================== registry and Adapter
\* core/checker.go keeps the registry `checkers`, a map from URL prefix to
\* checker; a checker's prefixes come from the configuration (GetPrefix).
LinkCheckers == {"quark", "uc"}
Prefixes == {<<>>, <<"q">>, <<"q", "u">>}
UrlTokens == {"q", "u"}
AdapterUrls == SeqsUpTo(UrlTokens, MaxUrlLen)

\* the two messages of Adapter: six characters of three bytes in the source,
\* six two-byte characters here
Text(lead, n) == [i \in 1..(2 * n) |-> IF i % 2 = 1 THEN lead ELSE "c"]
LinkEmptyMsg == Text("L", 6)
LinkUnsupportedMsg == Text("M", 6)

adapterFrame == <<poolVars, clientVars, runVars, reqCtx, dwr, chk, msgCall, req, auto, ui>>

\* RegisterChecker(checker), prefixes being what checker.GetPrefix() returns
RegisterChecker(checker, prefixes) ==
  /\ adapterCall.pc = "idle"
  /\ checkers' = [prefix \in DOMAIN checkers \cup prefixes |->
                    IF prefix \in prefixes THEN checker ELSE checkers[prefix]]
  /\ UNCHANGED <<adapterCall, adapterFrame>>

\* GetChecker(urlStr): the checkers the call may return. The loop ranges over
\* the map in an order the runtime picks and returns at the first prefix that
\* matches, so any checker with a matching prefix may come back; "nil" when no
\* prefix matches.
GetCheckerAny(urlStr) ==
  IF DOMAIN checkers = {} THEN {"nil"} ELSE {checkers[prefix] : prefix \in DOMAIN checkers}
GetChecker(urlStr) ==
  LET matching == {prefix \in DOMAIN checkers : HasPrefix(urlStr, prefix)}
  IN IF matching = {} THEN {"nil"} ELSE {checkers[prefix] : prefix \in matching}

\* the Results a checker's Check returns: it builds them with the builders of
\* utils/result.go
Names == SeqsUpTo({" ", "n"}, MaxNameLen)
StrategyMsgs == {<<>>, <<"a">>}
StrategyResults(urlStr) ==
  {ErrorValid(name) : name \in Names}
    \cup {ErrorTimeout}
    \cup {ErrorInvalid(msg) : msg \in StrategyMsgs}
    \cup {ErrorFatal(msg) : msg \in StrategyMsgs}
    \cup {ErrorUnknown(msg) : msg \in StrategyMsgs}
    \cup {ErrorMalformed(urlStr, msg) : msg \in StrategyMsgs}

\* readings of the monotonic clock
Ticks == 0..1

NoStrategyResult ==
  [panic |-> FALSE, Error |-> -1, Msg |-> <<>>,
   Data |-> [URL |-> <<>>, Name |-> <<>>, Elapsed |-> 0]]
AdapterReturn(urlStr, result) ==
  [pc |-> "returned", urlStr |-> urlStr, checker |-> "nil", startTime |-> 0,
   invoked |-> <<>>, strategy |-> NoStrategyResult, result |-> result]

\* the test `"" == urlStr`, and the mutant in which it never holds
UrlIsEmptyNever(urlStr) == FALSE
UrlIsEmpty(urlStr) == urlStr = <<>>

\* Adapter(ctx, urlStr) up to the call of checker.Check: it returns Malformed
\* for the empty URL and for a URL no checker takes
AdapterCall(urlStr) ==
  /\ adapterCall.pc = "idle"
  /\ IF UrlIsEmpty(urlStr)
       THEN adapterCall' = AdapterReturn(urlStr, ErrorMalformed(urlStr, LinkEmptyMsg))
       ELSE \E checker \in GetChecker(urlStr) :
              IF checker = "nil"
                THEN adapterCall' =
                       AdapterReturn(urlStr, ErrorMalformed(urlStr, LinkUnsupportedMsg))
                ELSE \E startTime \in Ticks :
                       adapterCall' =
                         [pc |-> "check", urlStr |-> urlStr, checker |-> checker,
                          startTime |-> startTime, invoked |-> <<>>,
                          strategy |-> NoStrategyResult, result |-> NoStrategyResult]
  /\ UNCHANGED <<checkers, adapterFrame>>

\* checker.Check returns a Result; Adapter sets URL, Elapsed and Name and returns
AdapterCheck(now) ==
  /\ adapterCall.pc = "check"
  /\ now >= adapterCall.startTime
  /\ \E result \in StrategyResults(adapterCall.urlStr) :
       adapterCall' =
         [adapterCall EXCEPT
            !.pc = "returned",
            !.invoked = <<adapterCall.checker>>,
            !.strategy = result,
            !.result = [result EXCEPT
                          !.Data = [URL |-> adapterCall.urlStr,
                                    Elapsed |-> now - adapterCall.startTime,
                                    Name |-> TrimSpace(result.Data.Name)]]]
  /\ UNCHANGED <<checkers, adapterFrame>>

\* the caller has the Result: the next call can be made
AdapterDone ==
  /\ adapterCall.pc = "returned"
  /\ adapterCall' = NoAdapterCall
  /\ UNCHANGED <<checkers, adapterFrame>>

NextAdapter ==
  \/ \E checker \in LinkCheckers, prefixes \in (SUBSET Prefixes) \ {{}} :
       RegisterChecker(checker, prefixes)
  \/ \E urlStr \in AdapterUrls : AdapterCall(urlStr)
  \/ \E now \in Ticks : AdapterCheck(now)
  \/ AdapterDone

SpecAdapter == Init /\ [][NextAdapter]_vars

\* ------------------------------------------- the registry of the default build
\* Config.initDefault: the prefixes of each provider, character by character
Https == <<"h", "t", "t", "p", "s", ":", "/", "/">>
\* a configuration in which quark's prefix is "https://pan."
DefaultProvidersShortQuark ==
  [quark |->
     {Https \o <<"p", "a", "n", ".">>},
   telecom |->
     {Https \o <<"c", "l", "o", "u", "d", ".", "1", "8", "9", ".", "c", "n", "/", "w", "e", "b", "/", "s", "h", "a", "r", "e", "?">>,
      Https \o <<"c", "l", "o", "u", "d", ".", "1", "8", "9", ".", "c", "n", "/", "t", "/">>},
   baidu |->
     {Https \o <<"p", "a", "n", ".", "b", "a", "i", "d", "u", ".", "c", "o", "m", "/", "s", "/">>},
   alipan |->
     {Https \o <<"w", "w", "w", ".", "a", "l", "i", "p", "a", "n", ".", "c", "o", "m", "/", "s", "/">>},
   yyw |->
     {Https \o <<"1", "1", "5", "c", "d", "n", ".", "c", "o", "m", "/", "s", "/">>},
   yes |->
     {Https \o <<"w", "w", "w", ".", "1", "2", "3", "6", "8", "4", ".", "c", "o", "m", "/", "s", "/">>,
      Https \o <<"w", "w", "w", ".", "1", "2", "3", "8", "6", "5", ".", "c", "o", "m", "/", "s", "/">>},
   uc |->
     {Https \o <<"d", "r", "i", "v", "e", ".", "u", "c", ".", "c", "n", "/", "s", "/">>},
   xunlei |->
     {Https \o <<"p", "a", "n", ".", "x", "u", "n", "l", "e", "i", ".", "c", "o", "m", "/", "s", "/">>},
   yd |->
     {Https \o <<"y", "u", "n", ".", "1", "3", "9", ".", "c", "o", "m", "/", "s", "h", "a", "r", "e", "w", "e", "b", "/">>}]
DefaultProviders ==
  [quark |->
     {Https \o <<"p", "a", "n", ".", "q", "u", "a", "r", "k", ".", "c", "n", "/", "s", "/">>},
   telecom |->
     {Https \o <<"c", "l", "o", "u", "d", ".", "1", "8", "9", ".", "c", "n", "/", "w", "e", "b", "/", "s", "h", "a", "r", "e", "?">>,
      Https \o <<"c", "l", "o", "u", "d", ".", "1", "8", "9", ".", "c", "n", "/", "t", "/">>},
   baidu |->
     {Https \o <<"p", "a", "n", ".", "b", "a", "i", "d", "u", ".", "c", "o", "m", "/", "s", "/">>},
   alipan |->
     {Https \o <<"w", "w", "w", ".", "a", "l", "i", "p", "a", "n", ".", "c", "o", "m", "/", "s", "/">>},
   yyw |->
     {Https \o <<"1", "1", "5", "c", "d", "n", ".", "c", "o", "m", "/", "s", "/">>},
   yes |->
     {Https \o <<"w", "w", "w", ".", "1", "2", "3", "6", "8", "4", ".", "c", "o", "m", "/", "s", "/">>,
      Https \o <<"w", "w", "w", ".", "1", "2", "3", "8", "6", "5", ".", "c", "o", "m", "/", "s", "/">>},
   uc |->
     {Https \o <<"d", "r", "i", "v", "e", ".", "u", "c", ".", "c", "n", "/", "s", "/">>},
   xunlei |->
     {Https \o <<"p", "a", "n", ".", "x", "u", "n", "l", "e", "i", ".", "c", "o", "m", "/", "s", "/">>},
   yd |->
     {Https \o <<"y", "u", "n", ".", "1", "3", "9", ".", "c", "o", "m", "/", "s", "h", "a", "r", "e", "w", "e", "b", "/">>}]

\* registerCheckers: the order of the RegisterChecker calls; the last two are
\* made on a desktop build only
RegisterOrder == <<"quark", "telecom", "baidu", "alipan", "yyw", "yes", "uc", "xunlei", "yd">>
DesktopOnly == {"xunlei", "yd"}
Registered == {checkers[prefix] : prefix \in DOMAIN checkers}

\* the checkers registerCheckers registers on a build
RegisteredOn(isDesktop) ==
  {RegisterOrder[k] : k \in 1..Len(RegisterOrder)}
    \ (IF isDesktop THEN {} ELSE DesktopOnly)

\* a list that keeps the desktop-only providers on every build
AllPrefixesEverywhere(isDesktop) ==
  UNION {DefaultProviders[name] : name \in DOMAIN DefaultProviders}
\* Config.refreshAllPrefixes: the prefixes of every provider, those of the
\* desktop-only providers left out off desktop (GetSupportedLinks returns it)
AllPrefixes(isDesktop) ==
  UNION {DefaultProviders[name] :
           name \in {n \in DOMAIN DefaultProviders : ~(n \in DesktopOnly /\ ~isDesktop)}}

\* supportedLinks(url): some prefix of GetSupportedLinks() starts the URL
supportedLinks(urlStr, isDesktop) ==
  \E prefix \in AllPrefixes(isDesktop) : HasPrefix(urlStr, prefix)

\* the next RegisterChecker call of registerCheckers
RegisterDefault ==
  /\ \E k \in 1..Len(RegisterOrder) :
       /\ RegisterOrder[k] \notin Registered
       /\ \A j \in 1..(k - 1) : RegisterOrder[j] \in Registered
       /\ RegisterChecker(RegisterOrder[k], DefaultProviders[RegisterOrder[k]])

\* the URLs looked up: a prefix, a prefix and more, a prefix cut short
DefaultUrls ==
  LET all == UNION {DefaultProviders[c] : c \in DOMAIN DefaultProviders}
  IN all \cup {p \o <<"a">> : p \in all} \cup {SubSeq(p, 1, Len(p) - 1) : p \in all}

\* Adapter runs once registerCheckers is over
RegistryReady ==
  \/ Registered = DOMAIN DefaultProviders
  \/ Registered = DOMAIN DefaultProviders \ DesktopOnly

NextRegistry ==
  \/ RegisterDefault
  \/ \E urlStr \in DefaultUrls : RegistryReady /\ AdapterCall(urlStr)
  \/ \E now \in Ticks : AdapterCheck(now)
  \/ AdapterDone

SpecRegistry == Init /\ [][NextRegistry]_vars

\* ============================================================ request headers
\* http.Header: a map from the canonical form of a header's name to its value.
\* Header.Set(key, value) stores under the canonical key and replaces what is there.
CanonicalMIMEHeaderKey(key) ==
  CASE key = "accept"          -> "Accept"
    [] key = "accept-language" -> "Accept-Language"
    [] key = "user-agent"      -> "User-Agent"
    [] key = "cache-control"   -> "Cache-Control"
    [] key = "pragma"          -> "Pragma"
    [] key = "referer"         -> "Referer"
    [] OTHER                   -> key
HeaderSet(h, key, value) ==
  LET k == CanonicalMIMEHeaderKey(key)
  IN [x \in DOMAIN h \cup {k} |-> IF x = k THEN value ELSE h[x]]

\* the five headers SetDefaultHeaders sets, in its order
DefaultHeaders ==
  << <<"accept", "application/json;charset=UTF-8">>,
     <<"accept-language", "en,zh-CN;q=0.9,zh;q=0.8">>,
     <<"user-agent", "Mozilla/5.0">>,
     <<"cache-control", "no-cache">>,
     <<"pragma", "no-cache">> >>
RECURSIVE SetHeaders(_, _)
SetHeaders(h, pairs) ==
  IF pairs = <<>>
    THEN h
    ELSE SetHeaders(HeaderSet(h, Head(pairs)[1], Head(pairs)[2]), Tail(pairs))
SetDefaultHeaders(h) == SetHeaders(h, DefaultHeaders)

\* the headers a caller puts on a request, as the strategies write them, each
\* with a value of the caller's or with the value the defaults would give
CallerKeys == {"Accept", "accept-language", "User-Agent", "cache-control", "pragma", "Referer"}
DefaultOf(key) ==
  LET at == {i \in 1..Len(DefaultHeaders) :
               CanonicalMIMEHeaderKey(DefaultHeaders[i][1]) = CanonicalMIMEHeaderKey(key)}
  IN IF at = {} THEN "none" ELSE DefaultHeaders[CHOOSE i \in at : TRUE][2]
CallerValues(key) == {"caller"} \cup ({DefaultOf(key)} \ {"none"})
EmptyHeader == [x \in {} |-> ""]

reqFrame == <<poolVars, clientVars, runVars, reqCtx, dwr, chk, checkers, adapterCall,
              msgCall, auto, ui>>

\* http.NewRequestWithContext: a request with no header
NewRequest ==
  /\ req.pc = "idle"
  /\ req' = [pc |-> "new", Header |-> EmptyHeader, before |-> EmptyHeader]
  /\ UNCHANGED reqFrame

\* the caller sets a header
CallerSet(key, value) ==
  /\ req.pc = "new"
  /\ CanonicalMIMEHeaderKey(key) \notin DOMAIN req.Header
  /\ req' = [req EXCEPT !.Header = HeaderSet(req.Header, key, value)]
  /\ UNCHANGED reqFrame

\* SetDefaultHeaders(req)
ApplyDefaultHeaders ==
  /\ req.pc = "new"
  /\ req' = [pc |-> "defaults", Header |-> SetDefaultHeaders(req.Header),
             before |-> req.Header]
  /\ UNCHANGED reqFrame

\* the request is sent and dropped
ReqDone ==
  /\ req.pc = "defaults"
  /\ req' = NoReq
  /\ UNCHANGED reqFrame

NextHeaders ==
  \/ NewRequest
  \/ \E key \in CallerKeys : \E value \in CallerValues(key) : CallerSet(key, value)
  \/ ApplyDefaultHeaders
  \/ ReqDone

SpecHeaders == Init /\ [][NextHeaders]_vars

\* ============================================= automation checks (chromedp)
\* The Chinese texts of the source are written in English here:
\*   violating content  =  该分享内容可能涉及违规信息，无法访问！
\*   share deleted by its author  =  该分享已被作者删除
\*   deleted by its author  =  作者删除
\*   share deleted  =  分享已删除
\*   this share does not exist  =  该分享不存在
\*   share does not exist or has expired  =  分享不存在或已过期
\*   share does not exist  =  分享不存在
\*   share has expired  =  分享已过期
\*   has expired  =  已过期
\*   page does not exist  =  页面不存在
\*   infringement  =  涉及侵权
\*   pornography  =  色情
\*   reactionary  =  反动
\*   vulgar  =  低俗
\*   cannot be accessed  =  无法访问
\*   no files yet  =  暂无文件
\*   cannot get share information (xunlei)  =  无法获分享信息
\*   cannot get share information  =  无法获取分享信息
\*   share cancelled, ask the sharer  =  分享已取消，请联系分享者重新分享
\*   share cancelled  =  分享已取消
\*   must log in to access  =  必须登录才能访问
\*   please log in first  =  请先登录
\*   log in to view  =  登录后才能查看
\*   login needed  =  需要登录才能访问该分享
\*   password error  =  密码错误
\*   extraction code error  =  提取码错误
\*   extraction code  =  提取码
\*   please enter  =  请输入
\*   extraction code needed  =  该分享需要提取码
\*   page cannot be found  =  找不到页面
\*   share files (zh)  =  分享文件
\*   share info (zh)  =  分享信息
\*   file list (zh)  =  文件列表
\*   download (zh)  =  下载
\*   link format invalid  =  链接格式无效
\*   failed:   =  失败: 
MaxMarks == 2   \* keywords a page of the model contains at most

\* the keyword lists of checkXunlei
deletedFirst == {"deleted by its author", "share deleted"}
expiredFirst == {"share does not exist", "has expired", "page does not exist"}
violationKeywords == {"infringement", "pornography", "reactionary", "vulgar", "cannot be accessed"}
deletedKeywords == {"share deleted by its author", "share deleted", "share has been deleted"}
expiredKeywords == {"share does not exist", "has expired", "page does not exist", "not found", "404"}
notFoundMarks == {"statusCode:404", "path:\"\\u002Fs"}
XunleiKeywords ==
  deletedFirst \cup expiredFirst \cup violationKeywords \cup deletedKeywords
    \cup expiredKeywords \cup notFoundMarks \cup {"no files yet"}

\* the keyword lists of checkYd
canceledKeywords == {"share has been canceled", "share cancelled"}
loginKeywords ==
  {"must log in to access", "please log in first", "log in to view", "login to access", "require login"}
passwordKeywords == {"password error", "wrong password", "extraction code error"}
invalidKeywords ==
  {"share does not exist", "this share does not exist", "share has expired", "share deleted", "share expired", "not found"}
validFeatures ==
  {"yun.139.com", "share files (zh)", "shared files", "share info (zh)", "share info", "file list (zh)",
   "file list", "download (zh)", "download"}
YdKeywords ==
  canceledKeywords \cup loginKeywords \cup passwordKeywords \cup invalidKeywords
    \cup validFeatures \cup {"extraction code", "please enter", "enter password", "404", "page does not exist", "page cannot be found"}

AutoCheckers == {"xunlei", "yd"}
Keywords(checker) == IF checker = "xunlei" THEN XunleiKeywords ELSE YdKeywords

\* the keywords that occur inside another keyword (after strings.ToLower)
Within ==
  {<<"share deleted by its author", "deleted by its author">>, <<"statusCode:404", "404">>,
   <<"this share does not exist", "share does not exist">>, <<"extraction code error", "extraction code">>}

SubsetsUpTo(S, n) ==
  LET RECURSIVE UpTo(_)
      UpTo(k) == IF k = 0 THEN {{}}
                 ELSE UpTo(k - 1) \cup {x \cup {e} : x \in UpTo(k - 1), e \in S}
  IN UpTo(n)
\* pageContent: empty, or markup in which some keywords occur
EmptyPage == [empty |-> TRUE, marks |-> {}]
Pages(checker) ==
  {[empty |-> FALSE, marks |-> m] : m \in SubsetsUpTo(Keywords(checker), MaxMarks)}

\* strings.Contains(lowerPageContent, keyword)
Contains(page, keyword) ==
  \E m \in page.marks : m = keyword \/ <<m, keyword>> \in Within
ContainsAny(page, keywords) == \E k \in keywords : Contains(page, k)
\* for _, keyword := range keywords { if strings.Contains(...) { count++ } }
Count(page, keywords) == Cardinality({k \in keywords : Contains(page, k)})

AutoResult(error, msg) == [Error |-> error, Msg |-> msg]
NoAutoResult == AutoResult(-1, "")
ViolationMsg == "violating content"

\* a page that one violation keyword is enough to condemn
IsViolationAny(page) == Count(page, violationKeywords) >= 1
\* if violationCount >= 2
IsViolation(page) == Count(page, violationKeywords) >= 2

\* checkXunlei: the checks made on the page of the first stage
XunleiFirstCheck(page) ==
  IF page.empty THEN NoAutoResult
  ELSE IF ContainsAny(page, deletedFirst) THEN AutoResult(Invalid, "share deleted by its author")
  ELSE IF ContainsAny(page, expiredFirst) THEN AutoResult(Invalid, "share does not exist or has expired")
  ELSE IF IsViolation(page) THEN AutoResult(Invalid, ViolationMsg)
  ELSE NoAutoResult

\* checkXunlei: the checks made once both stages are over
XunleiFinalCheck(page, folderName) ==
  IF Count(page, deletedKeywords) >= 1 THEN AutoResult(Invalid, "share deleted by its author")
  ELSE IF IsViolation(page) THEN AutoResult(Invalid, ViolationMsg)
  ELSE IF Contains(page, "no files yet") THEN AutoResult(Invalid, "no files yet")
  ELSE IF Count(page, expiredKeywords) >= 2 THEN AutoResult(Invalid, "share does not exist or has expired")
  ELSE IF ContainsAny(page, notFoundMarks) THEN AutoResult(Invalid, "share does not exist or has expired")
  ELSE IF folderName THEN AutoResult(Valid, "")
  ELSE AutoResult(Invalid, "cannot get share information (xunlei)")

\* checkYd: the checks on the page, made after the first stage (login counts
\* whatever folderName is) and again at the end (login counts with no folderName)
YdPageCheck(page, url, folderName) ==
  IF page.empty THEN NoAutoResult
  ELSE IF ContainsAny(page, canceledKeywords)
    THEN AutoResult(Invalid, "share cancelled, ask the sharer")
  ELSE IF ContainsAny(page, loginKeywords) /\ ~folderName
    THEN AutoResult(Invalid, "login needed")
  ELSE IF ContainsAny(page, passwordKeywords) THEN AutoResult(Invalid, "password error")
  ELSE IF ContainsAny(page, invalidKeywords) THEN AutoResult(Invalid, "share does not exist or has expired")
  ELSE IF /\ \/ Contains(page, "extraction code") /\ Contains(page, "please enter")
             \/ Contains(page, "enter password")
          /\ url = "2qidGwZUXqwqo"
    THEN AutoResult(Invalid, "extraction code needed")
  ELSE IF \/ Contains(page, "404") /\ Contains(page, "page does not exist")
          \/ Contains(page, "404") /\ Contains(page, "not found")
          \/ Contains(page, "page cannot be found")
    THEN AutoResult(Invalid, "share does not exist or has expired")
  ELSE IF url = "2qidGwZUXqddw"
    THEN AutoResult(Invalid, "share cancelled, ask the sharer")
  ELSE NoAutoResult

\* checkYd: isValid and the last two returns
YdFinalCheck(page, folderName) ==
  IF folderName \/ (~page.empty /\ ContainsAny(page, validFeatures))
    THEN AutoResult(Valid, "")
    ELSE AutoResult(Invalid, "cannot get share information")

\* urlStr: what url.ParseRequestURI and the host test make of it; the two share
\* ids checkYd looks for
AutoUrls == {"share", "unparsable", "otherhost", "2qidGwZUXqwqo", "2qidGwZUXqddw"}
StageErrs == {"nil", "failed", "deadline"}
MaxSelectors == 5

autoFrame == <<poolVars, clientVars, runVars, reqCtx, dwr, chk, checkers, adapterCall,
               msgCall, req, ui>>

\* a return that skips the deferred cancel functions
AutoReturnNoDefers(a, result) ==
  [a EXCEPT !.pc = "done", !.result = result]
\* return: the deferred cancel functions run
AutoReturn(a, result) ==
  [a EXCEPT !.pc = "done", !.result = result,
            !.cancelled = @ \cup {a.defers[k] : k \in 1..Len(a.defers)}]

\* ctx, cancel := ...; defer cancel()
WithDeferred(a, ctxs) ==
  [a EXCEPT !.created = @ \cup {ctxs[k] : k \in 1..Len(ctxs)}, !.defers = @ \o ctxs]

\* checkXunlei / checkYd is entered: the URL is validated, then the allocator,
\* the browser context and the first stage's context are created
AutoCall(checker, url) ==
  /\ auto.pc = "idle"
  /\ LET a == [pc |-> "stage1", checker |-> checker, url |-> url, created |-> {},
               cancelled |-> {}, defers |-> <<>>, page |-> EmptyPage, err |-> "nil",
               folderName |-> FALSE, sel |-> 0, result |-> NoAutoResult]
     IN auto' = IF url \in {"unparsable", "otherhost"}
                  THEN AutoReturn(a, AutoResult(Malformed, "link format invalid"))
                  ELSE WithDeferred(a, <<"exec", "browser", "firstStage">>)
  /\ UNCHANGED autoFrame

\* after the first stage: checkXunlei looks at the page; checkYd retries first
\* when there is an error and no page
AfterStage1(a) ==
  IF a.checker = "yd" /\ a.err # "nil"
    THEN IF a.page.empty
           THEN [WithDeferred(a, <<"retryExec", "retryBrowser", "retry">>)
                   EXCEPT !.pc = "retry"]
           ELSE [a EXCEPT !.pc = "check", !.err = "nil"]
    ELSE [a EXCEPT !.pc = "check"]

\* chromedp.Run(firstStageCtx, ...) returns: the page, or an error and no page
AutoStage1(err) ==
  /\ auto.pc = "stage1"
  /\ \E page \in Pages(auto.checker) \cup {EmptyPage} :
       /\ (err = "nil") = ~page.empty
       /\ auto' = AfterStage1([auto EXCEPT !.err = err, !.page = page])
  /\ UNCHANGED autoFrame

\* checkYd: chromedp.Run(retryCtx, ...) returns
AutoRetry(retryErr) ==
  /\ auto.pc = "retry"
  /\ \E page \in Pages(auto.checker) \cup {EmptyPage} :
       /\ (retryErr = "nil") = ~page.empty
       /\ auto' = IF retryErr = "nil" /\ ~page.empty
                    THEN [auto EXCEPT !.pc = "check", !.page = page, !.err = "nil"]
                    ELSE AutoReturn([auto EXCEPT !.page = page], AutoResult(Fatal, "failed: "))
  /\ UNCHANGED autoFrame

\* the checks on the first stage's page, then the second stage's context
AutoCheck ==
  /\ auto.pc = "check"
  /\ LET first == IF auto.checker = "xunlei"
                    THEN XunleiFirstCheck(auto.page)
                    ELSE YdPageCheck(auto.page, auto.url, FALSE)
     IN auto' =
          IF first # NoAutoResult THEN AutoReturn(auto, first)
          ELSE IF auto.err = "nil" /\ ~auto.page.empty
            THEN IF auto.checker = "xunlei"
                   THEN [auto EXCEPT !.pc = "stage2", !.created = @ \cup {"secondStage"}]
                   ELSE [WithDeferred(auto, <<"secondStage">>) EXCEPT !.pc = "stage2"]
          ELSE [auto EXCEPT !.pc = "final"]
  /\ UNCHANGED autoFrame

\* checkXunlei: one turn of the selector loop, with its own context, cancelled
\* when chromedp.Text returned; after the loop cancel() of the second stage
AutoSelector(outcome) ==
  /\ auto.pc = "stage2"
  /\ auto.checker = "xunlei"
  /\ LET leave(a) == [a EXCEPT !.pc = "final", !.err = "nil",
                               !.cancelled = @ \cup {"secondStage"}]
         turn == [auto EXCEPT !.created = @ \cup {"selector"},
                              !.cancelled = @ \cup {"selector"},
                              !.sel = @ + 1]
     IN auto' =
          CASE outcome = "ctxErr" -> leave(auto)
            [] outcome = "found" -> leave([turn EXCEPT !.folderName = TRUE])
            [] outcome = "none" -> IF auto.sel + 1 >= MaxSelectors THEN leave(turn) ELSE turn
  /\ UNCHANGED autoFrame

\* checkYd: chromedp.Run(secondStageCtx, ...) returns, with a name or not
AutoStage2(found) ==
  /\ auto.pc = "stage2"
  /\ auto.checker = "yd"
  /\ auto' = [auto EXCEPT !.pc = "final", !.err = "nil", !.folderName = found]
  /\ UNCHANGED autoFrame

\* the end of the check: the error of the first stage (ctx.Err() tells a
\* timeout from a failure), the checks on the page, the name
AutoFinal(ctxErr) ==
  /\ auto.pc = "final"
  /\ auto' =
       IF auto.err # "nil"
         THEN IF ctxErr = "deadline"
                THEN AutoReturn(auto, AutoResult(Timeout, ""))
                ELSE AutoReturn(auto, AutoResult(Fatal, "failed: "))
       ELSE IF auto.checker = "xunlei"
         THEN AutoReturn(auto, XunleiFinalCheck(auto.page, auto.folderName))
       ELSE LET again == YdPageCheck(auto.page, auto.url, auto.folderName)
            IN AutoReturn(auto, IF again # NoAutoResult THEN again
                                ELSE YdFinalCheck(auto.page, auto.folderName))
  /\ UNCHANGED autoFrame

\* the caller has the result
AutoDone ==
  /\ auto.pc = "done"
  /\ auto' = NoAuto
  /\ UNCHANGED autoFrame

NextAuto ==
  \/ \E checker \in AutoCheckers, url \in AutoUrls : AutoCall(checker, url)
  \/ \E err \in StageErrs : AutoStage1(err)
  \/ \E err \in StageErrs : AutoRetry(err)
  \/ AutoCheck
  \/ \E outcome \in {"ctxErr", "found", "none"} : AutoSelector(outcome)
  \/ \E found \in BOOLEAN : AutoStage2(found)
  \/ \E ctxErr \in {"nil", "deadline", "canceled"} : AutoFinal(ctxErr)
  \/ AutoDone

SpecAuto == Init /\ [][NextAuto]_vars

\* =============================================================== CheckFile
\* One batch run of CheckFile (internal/ui/check/func.go). CheckFile is the
\* button's OnTapped handler: the toolkit runs one handler at a time, so the
\* next tap is handled only after CheckFile has returned.
totalLinks == Len(links)
Rows == DOMAIN tableData

\* the outcomes core.Adapter returns in the model
AdapterErrors == {Valid, Invalid}

TaskResult(index, error) == [nil |-> FALSE, index |-> index, Error |-> error]

\* the state CheckFile has built when it reaches the submission loop
RunInit ==
  /\ links \in [1..MaxLinks -> URLs]
  /\ tableData = [i \in 1..MaxLinks |-> DoingTxt]
  /\ stopChanClosed = FALSE
  /\ isChecking = TRUE
  /\ mainPc = "start"
  /\ idx = 1
  /\ attempt = 0
  /\ retryDelay = RetryDelay
  /\ completedCount = 0
  /\ processedCount = 0
  /\ failPc = [i \in 1..MaxLinks |-> "idle"]
  /\ listenerPc = "off"
  /\ monitorPc = "off"
  /\ resultPc = "off"
  /\ cur = Nil

\* a pool whose queue holds exactly as many tasks as CheckFile reads links
InitRunExactQueue ==
  /\ NewWorkerPool(RunWorkers, MaxLinks)
  /\ ClientInit
  /\ RunInit
  /\ NoCall
\* NewWorkerPool gives the queue room for one task more than CheckFile reads
\* links (queueSize 10000, maxLinks 9999)
InitRun ==
  /\ NewWorkerPool(RunWorkers, MaxLinks + 1)
  /\ ClientInit
  /\ RunInit
  /\ NoCall

\* the same run on a pool whose queue is smaller than the list of links, where
\* Submit can fail
InitRunFull ==
  /\ NewWorkerPool(RunWorkers, MaxQueue)
  /\ ClientInit
  /\ RunInit
  /\ NoCall

\* pool := workerpool.NewWorkerPool(); pool.Start()
RunStart ==
  /\ mainPc = "start"
  /\ Start
  /\ mainPc' = "loop"
  /\ UNCHANGED <<clientVars, links, tableData, stopChanClosed, isChecking, idx, attempt, retryDelay,
                 completedCount, processedCount, failPc, listenerPc, monitorPc, resultPc,
                 cur>>

\* the submission loop: select on q.stopChan before each task is built
LoopSelect ==
  /\ Alive
  /\ mainPc = "loop"
  /\ mainPc' = IF stopChanClosed THEN "spawn" ELSE "submit"
  /\ attempt' = 0
  /\ retryDelay' = RetryDelay
  /\ UNCHANGED <<poolVars, clientVars, links, tableData, stopChanClosed, isChecking, idx,
                 completedCount, processedCount, failPc, listenerPc, monitorPc, resultPc,
                 cur>>

\* the loop moves on to the next link, or ends
NextLink ==
  /\ idx' = idx + 1
  /\ mainPc' = IF idx >= totalLinks THEN "spawn" ELSE "loop"

\* one attempt of the retry loop: pool.Submit(task); on false sleep and retry,
\* after maxRetries failures start the failed-submission goroutine
SubmitAttempt ==
  /\ Alive
  /\ mainPc = "submit"
  /\ SubmitSend([url |-> links[idx], index |-> idx])
  /\ IF ~queueClosed /\ Len(taskQueue) < queueSize
       THEN NextLink /\ UNCHANGED <<attempt, retryDelay, failPc>>
       ELSE IF attempt < maxRetries - 1
              THEN /\ attempt' = attempt + 1
                   /\ retryDelay' = retryDelay * 2
                   /\ UNCHANGED <<idx, mainPc, failPc>>
              ELSE /\ failPc' = [failPc EXCEPT ![idx] = "run"]
                   /\ NextLink
                   /\ UNCHANGED <<attempt, retryDelay>>
  /\ UNCHANGED <<started, queueSize, queueClosed, resultChan, resultClosed, ctxDone,
                 longTaskSemaphore, wpc, wtask, wresult, recovered, stopPc, waitPc,
                 submitCount, nReceived, sawClose, links, tableData, stopChanClosed,
                 isChecking, completedCount, processedCount, listenerPc, monitorPc,
                 resultPc, cur>>

\* a failed-submission goroutine that writes the row whatever its status is
FailedSubmissionUnguarded(i) ==
  /\ Alive
  /\ failPc[i] = "run"
  /\ tableData' = [tableData EXCEPT ![i] = MalformedTxt]
  /\ completedCount' = completedCount + 1
  /\ failPc' = [failPc EXCEPT ![i] = "done"]
  /\ UNCHANGED <<poolVars, clientVars, links, stopChanClosed, isChecking, mainPc, idx,
                 attempt, retryDelay, processedCount, listenerPc, monitorPc, resultPc, cur>>
\* go func(idx): the row of a task that could not be submitted. The status
\* (column 2, tableData) and the message "任务提交失败" (column 4) are written
\* together, when the row is "doing"
FailedSubmission(i) ==
  /\ Alive
  /\ failPc[i] = "run"
  /\ tableData' = IF tableData[i] = DoingTxt
                    THEN [tableData EXCEPT ![i] = MalformedTxt]
                    ELSE tableData
  /\ completedCount' = completedCount + 1
  /\ failPc' = [failPc EXCEPT ![i] = "done"]
  /\ UNCHANGED <<poolVars, clientVars, links, stopChanClosed, isChecking, mainPc, idx,
                 attempt, retryDelay, processedCount, listenerPc, monitorPc, resultPc, cur>>

\* CheckFile starts the result goroutine, which starts the stop listener and the
\* completion monitor, and returns
Spawn ==
  /\ Alive
  /\ mainPc = "spawn"
  /\ mainPc' = "done"
  /\ resultPc' = "select"
  /\ listenerPc' = "waiting"
  /\ monitorPc' = "loop"
  /\ UNCHANGED <<poolVars, clientVars, links, tableData, stopChanClosed, isChecking, idx,
                 attempt, retryDelay, completedCount, processedCount, failPc, cur>>

\* the user taps the button while q.isChecking: the stop signal is closed once
ClickStop ==
  /\ Alive
  /\ mainPc = "done"
  /\ isChecking
  /\ stopChanClosed' = TRUE
  /\ isChecking' = FALSE
  /\ UNCHANGED <<poolVars, clientVars, links, tableData, mainPc, idx, attempt, retryDelay,
                 completedCount, processedCount, failPc, listenerPc, monitorPc, resultPc,
                 cur>>

\* ------------------------------------------------- the task body (task.Func)
runFrame == <<links, stopChanClosed, isChecking, mainPc, idx, attempt, retryDelay, completedCount,
              processedCount, failPc, listenerPc, monitorPc, resultPc, cur>>

\* a task body that marks its row without looking at it
TaskMarkDoingUnguarded(w) ==
  /\ Alive
  /\ wpc[w] = "exec"
  /\ tableData' = [tableData EXCEPT ![wtask[w].index] = DoingTxt]
  /\ wpc' = [wpc EXCEPT ![w] = "bodySelect"]
  /\ UNCHANGED <<started, queueSize, taskQueue, queueClosed, resultChan, resultClosed,
                 ctxDone, longTaskSemaphore, wtask, wresult, recovered, stopPc, waitPc,
                 panicked, clientVars, runFrame>>

\* under the table's mutex: the row becomes "doing" unless it is "stopped"
TaskMarkDoing(w) ==
  /\ Alive
  /\ wpc[w] = "exec"
  /\ tableData' = IF tableData[wtask[w].index] # StopTxt
                    THEN [tableData EXCEPT ![wtask[w].index] = DoingTxt]
                    ELSE tableData
  /\ wpc' = [wpc EXCEPT ![w] = "bodySelect"]
  /\ UNCHANGED <<started, queueSize, taskQueue, queueClosed, resultChan, resultClosed,
                 ctxDone, longTaskSemaphore, wtask, wresult, recovered, stopPc, waitPc,
                 panicked, clientVars, runFrame>>

\* select { <-q.stopChan: Stop; <-ctx.Done(): Done; default: go on with result }
StopOrResult(w, error) ==
  \/ stopChanClosed /\ ExecuteTask(w, TaskResult(wtask[w].index, Stop))
  \/ ctxDone /\ ExecuteTask(w, TaskResult(wtask[w].index, Done))
  \/ ~stopChanClosed /\ ~ctxDone /\ ExecuteTask(w, TaskResult(wtask[w].index, error))

\* a task body whose first select has only its default case
TaskSelectNoStop(w) ==
  /\ Alive
  /\ wpc[w] = "bodySelect"
  /\ wpc' = [wpc EXCEPT ![w] = "bodyAdapter"]
  /\ UNCHANGED <<started, queueSize, taskQueue, queueClosed, resultChan, resultClosed,
                 ctxDone, longTaskSemaphore, wtask, wresult, stopPc, waitPc, panicked>>
  /\ UNCHANGED <<recovered, clientVars, tableData, runFrame>>

\* the first select of the body: stop, cancelled, or go on to the check
TaskSelect(w) ==
  /\ Alive
  /\ wpc[w] = "bodySelect"
  /\ \/ stopChanClosed /\ ExecuteTask(w, TaskResult(wtask[w].index, Stop))
     \/ ctxDone /\ ExecuteTask(w, TaskResult(wtask[w].index, Done))
     \/ /\ ~stopChanClosed
        /\ ~ctxDone
        /\ wpc' = [wpc EXCEPT ![w] = "bodyAdapter"]
        /\ UNCHANGED <<started, queueSize, taskQueue, queueClosed, resultChan,
                       resultClosed, ctxDone, longTaskSemaphore, wtask, wresult, stopPc,
                       waitPc, panicked>>
  /\ UNCHANGED <<recovered, clientVars, tableData, runFrame>>

\* core.Adapter(ctx, url) returns, then the second select of the body
TaskAdapter(w) ==
  /\ Alive
  /\ wpc[w] = "bodyAdapter"
  /\ \E error \in AdapterErrors : StopOrResult(w, error)
  /\ UNCHANGED <<recovered, clientVars, tableData, runFrame>>

\* core.Adapter panics; executeTask recovers
TaskPanic(w) ==
  /\ wpc[w] = "bodyAdapter"
  /\ ExecuteTaskRecover(w)
  /\ UNCHANGED <<clientVars, tableData, runFrame>>

\* --------------------------------------------------------- the stop listener
\* a stop listener that goes to pool.Stop() without touching the table
ListenerMarkNone ==
  /\ Alive
  /\ listenerPc = "waiting"
  /\ stopChanClosed
  /\ listenerPc' = "stop"
  /\ UNCHANGED <<poolVars, clientVars, links, tableData, stopChanClosed, isChecking, mainPc, idx,
                 attempt, retryDelay, completedCount, processedCount, failPc, monitorPc, resultPc, cur>>
\* case <-q.stopChan: under the mutex every row still "doing" becomes "stopped"
ListenerMark ==
  /\ Alive
  /\ listenerPc = "waiting"
  /\ stopChanClosed
  /\ tableData' = [i \in Rows |-> IF tableData[i] = DoingTxt THEN StopTxt ELSE tableData[i]]
  /\ listenerPc' = "stop"
  /\ UNCHANGED <<poolVars, clientVars, links, stopChanClosed, isChecking, mainPc, idx,
                 attempt, retryDelay, completedCount, processedCount, failPc, monitorPc, resultPc, cur>>

\* pool.Stop()
ListenerStop ==
  /\ listenerPc = "stop"
  /\ StopCancel
  /\ listenerPc' = "called"
  /\ UNCHANGED <<clientVars, links, tableData, stopChanClosed, isChecking, mainPc, idx,
                 attempt, retryDelay, completedCount, processedCount, failPc, monitorPc, resultPc, cur>>

\* ---------------------------------------------------- the completion monitor
\* for atomic.LoadInt32(&completedCount) < int32(totalTasks)
MonitorLoop ==
  /\ Alive
  /\ monitorPc = "loop"
  /\ monitorPc' = IF completedCount < totalLinks THEN "select" ELSE "wait"
  /\ UNCHANGED <<poolVars, clientVars, links, tableData, stopChanClosed, isChecking,
                 mainPc, idx, attempt, retryDelay, completedCount, processedCount, failPc, listenerPc,
                 resultPc, cur>>

\* select { <-q.stopChan: return; default: sleep }
MonitorSelect ==
  /\ Alive
  /\ monitorPc = "select"
  /\ monitorPc' = IF stopChanClosed THEN "done" ELSE "loop"
  /\ UNCHANGED <<poolVars, clientVars, links, tableData, stopChanClosed, isChecking,
                 mainPc, idx, attempt, retryDelay, completedCount, processedCount, failPc, listenerPc,
                 resultPc, cur>>

\* pool.Wait()
MonitorWait ==
  /\ monitorPc = "wait"
  /\ WaitCloseQueue
  /\ monitorPc' = "waiting"
  /\ UNCHANGED <<clientVars, links, tableData, stopChanClosed, isChecking, mainPc, idx,
                 attempt, retryDelay, completedCount, processedCount, failPc, listenerPc, resultPc,
                 cur>>

\* pool.Wait() returned: if q.isChecking, the button is restored and isChecking reset
MonitorFinish ==
  /\ Alive
  /\ monitorPc = "waiting"
  /\ waitPc = "done"
  /\ isChecking' = FALSE
  /\ monitorPc' = "done"
  /\ UNCHANGED <<poolVars, clientVars, links, tableData, stopChanClosed, mainPc, idx,
                 attempt, retryDelay, completedCount, processedCount, failPc, listenerPc, resultPc,
                 cur>>

\* ------------------------------------------------------- the result loop
\* the status text the result loop writes for an outcome
StatusText(error) ==
  IF error = Valid THEN ValidTxt
  ELSE IF error = Invalid THEN InvalidTxt
  ELSE IF error = Malformed THEN MalformedTxt
  ELSE IF error = Timeout THEN TimeoutTxt
  ELSE IF error = Fatal THEN FatalTxt
  ELSE UnknownTxt

\* resultProcessDone: if q.isChecking, the button is restored and isChecking reset
ResultProcessDone ==
  /\ resultPc' = "done"
  /\ isChecking' = FALSE
  /\ UNCHANGED <<poolVars, clientVars, links, tableData, stopChanClosed, mainPc, idx,
                 attempt, retryDelay, completedCount, processedCount, failPc, listenerPc, monitorPc,
                 cur>>

\* for processedCount < totalTasks: the loop ends
ResultLoopExit ==
  /\ Alive
  /\ resultPc = "select"
  /\ processedCount >= totalLinks
  /\ ResultProcessDone

\* case <-timeoutCtx.Done(): two minutes have passed since the loop began
ResultTimeout ==
  /\ Alive
  /\ resultPc = "select"
  /\ processedCount < totalLinks
  /\ ResultProcessDone

\* case <-q.stopChan
ResultStopped ==
  /\ Alive
  /\ resultPc = "select"
  /\ processedCount < totalLinks
  /\ stopChanClosed
  /\ ResultProcessDone

\* case result, ok := <-resultsChan with ok: the result is counted; it is skipped
\* when the stop signal has fired, when its Value is no taskResult, or when its
\* index is outside the table. (With !ok the loop just selects again.)
ResultReceive ==
  /\ Alive
  /\ resultPc = "select"
  /\ processedCount < totalLinks
  /\ resultChan # <<>>
  /\ resultChan' = Tail(resultChan)
  /\ processedCount' = processedCount + 1
  /\ LET value == Head(resultChan).Value IN
       IF stopChanClosed \/ value.nil \/ ~(value.index >= 1 /\ value.index <= Len(tableData))
         THEN UNCHANGED <<resultPc, cur>>
         ELSE resultPc' = "update" /\ cur' = value
  /\ UNCHANGED <<started, queueSize, taskQueue, queueClosed, resultClosed, ctxDone,
                 longTaskSemaphore, wpc, wtask, wresult, recovered, stopPc, waitPc,
                 panicked, clientVars, links, tableData, stopChanClosed, isChecking,
                 mainPc, idx, attempt, retryDelay, completedCount, failPc, listenerPc, monitorPc>>

\* the status the result loop writes for a taskResult
RowStatus(value) ==
  IF value.Error = Stop \/ value.Error = Done THEN StopTxt ELSE StatusText(value.Error)

\* a row update that does not look at the row's status
ResultUpdateRowUnguarded ==
  /\ Alive
  /\ resultPc = "update"
  /\ tableData' = [tableData EXCEPT ![cur.index] = RowStatus(cur)]
  /\ completedCount' = completedCount + 1
  /\ resultPc' = "select"
  /\ cur' = Nil
  /\ UNCHANGED <<poolVars, clientVars, links, stopChanClosed, isChecking, mainPc, idx,
                 attempt, retryDelay, processedCount, failPc, listenerPc, monitorPc>>

\* a result loop that writes the row of the arrival order, not of the payload
ResultUpdateRowByArrival ==
  /\ Alive
  /\ resultPc = "update"
  /\ tableData' = IF tableData[processedCount] # StopTxt
                    THEN [tableData EXCEPT ![processedCount] = RowStatus(cur)]
                    ELSE tableData
  /\ completedCount' = completedCount + 1
  /\ resultPc' = "select"
  /\ cur' = Nil
  /\ UNCHANGED <<poolVars, clientVars, links, stopChanClosed, isChecking, mainPc, idx,
                 attempt, retryDelay, processedCount, failPc, listenerPc, monitorPc>>

\* under the mutex: the row is written unless it is "stopped"; then the
\* completed counter is incremented
ResultUpdateRow ==
  /\ Alive
  /\ resultPc = "update"
  /\ tableData' = IF tableData[cur.index] # StopTxt
                    THEN [tableData EXCEPT ![cur.index] = RowStatus(cur)]
                    ELSE tableData
  /\ completedCount' = completedCount + 1
  /\ resultPc' = "select"
  /\ cur' = Nil
  /\ UNCHANGED <<poolVars, clientVars, links, stopChanClosed, isChecking, mainPc, idx,
                 attempt, retryDelay, processedCount, failPc, listenerPc, monitorPc>>

\* ------------------------------------------------------------ the batch run
NextRun ==
  \/ RunStart /\ UNCHANGED fnVars
  \/ LoopSelect /\ UNCHANGED fnVars
  \/ SubmitAttempt /\ UNCHANGED fnVars
  \/ Spawn /\ UNCHANGED fnVars
  \/ ClickStop /\ UNCHANGED fnVars
  \/ \E w \in Workers : WorkerCtxDone(w) /\ UNCHANGED poolFrame
  \/ \E w \in Workers : WorkerQueueClosed(w) /\ UNCHANGED poolFrame
  \/ \E w \in Workers : WorkerTakeTask(w) /\ UNCHANGED poolFrame
  \/ \E w \in Workers : WorkerAcquire(w) /\ UNCHANGED poolFrame
  \/ \E w \in Workers : TaskMarkDoing(w) /\ UNCHANGED fnVars
  \/ \E w \in Workers : TaskSelect(w) /\ UNCHANGED fnVars
  \/ \E w \in Workers : TaskAdapter(w) /\ UNCHANGED fnVars
  \/ \E w \in Workers : TaskPanic(w) /\ UNCHANGED fnVars
  \/ \E w \in Workers : WorkerRelease(w) /\ UNCHANGED poolFrame
  \/ \E w \in Workers : WorkerSend(w) /\ UNCHANGED poolFrame
  \/ \E w \in Workers : WorkerDrop(w) /\ UNCHANGED poolFrame
  \/ ListenerMark /\ UNCHANGED fnVars
  \/ ListenerStop /\ UNCHANGED fnVars
  \/ StopCloseQueue /\ UNCHANGED poolFrame
  \/ StopWgWait /\ UNCHANGED poolFrame
  \/ StopCloseResults /\ UNCHANGED poolFrame
  \/ MonitorLoop /\ UNCHANGED fnVars
  \/ MonitorSelect /\ UNCHANGED fnVars
  \/ MonitorWait /\ UNCHANGED fnVars
  \/ WaitWgWait /\ UNCHANGED poolFrame
  \/ WaitCloseResults /\ UNCHANGED poolFrame
  \/ MonitorFinish /\ UNCHANGED fnVars
  \/ ResultReceive /\ UNCHANGED fnVars
  \/ ResultUpdateRow /\ UNCHANGED fnVars
  \/ ResultLoopExit /\ UNCHANGED fnVars
  \/ ResultTimeout /\ UNCHANGED fnVars
  \/ ResultStopped /\ UNCHANGED fnVars

SpecRun == InitRun /\ [][NextRun]_vars

NextRunFull ==
  \/ NextRun
  \/ \E i \in Rows : FailedSubmission(i) /\ UNCHANGED fnVars

SpecRunFull == InitRunFull /\ [][NextRunFull]_vars

\* the run on a pool of NumWorkers workers, where tasks finish in any order
InitRunOrder ==
  /\ NewWorkerPool(NumWorkers, MaxLinks + 1)
  /\ ClientInit
  /\ RunInit
  /\ NoCall

SpecRunOrder == InitRunOrder /\ [][NextRun]_vars

\* the stop listener is a goroutine of its own, blocked on q.stopChan alone: once
\* the channel is closed the scheduler runs it
SpecRunFair ==
  /\ SpecRunFull
  /\ WF_vars(ListenerMark /\ UNCHANGED fnVars)
  /\ WF_vars(ListenerStop /\ UNCHANGED fnVars)

\* ============================================ one CheckUI and several runs
\* CheckFile is the OnTapped handler of the check button. It runs on the UI
\* goroutine, one call at a time; the goroutines of a run it has started go on
\* running after it returns, and after a later call has started another run.
\* They read q.stopChan, q.isChecking and q.tableDataWrapper.Data when they use
\* them, so they see what the latest call has put there. The stop channel that
\* the call of run r makes has the identity r; a pool has one worker; Adapter
\* answers Valid. Steps that only a goroutine's own state separates are taken
\* together: the completion monitor's loop test with its select, a task body's
\* row update with its first select, the end of a task body with the worker's
\* send, and the first two statements of Stop() and of Wait().
uiFrame == <<poolVars, clientVars, runVars, reqCtx, dwr, chk, checkers, adapterCall,
             msgCall, req, auto>>
UiRuns == 1..MaxRuns
UiAlive == ui.panic = "none"
\* <-q.stopChan is ready: the channel q.stopChan refers to now is closed
StopSignalled == ui.stopChan \in ui.closed
IsFinalTxt(status) == status # DoingTxt

\* the pool, the tasks and the goroutines of a run of n links
NewUiRun(n) ==
  [NoUiRun EXCEPT !.n = n, !.queue = [i \in 1..n |-> i], !.wpc = "select",
                  !.lpc = "start", !.mpc = "loop", !.rpc = "select"]

\* CheckFile while q.isChecking: the stop channel is closed unless it is closed
\* already, and isChecking is reset
CheckFileStop ==
  /\ UiAlive
  /\ ui.pc = "idle"
  /\ ui.isChecking
  /\ ui' = [ui EXCEPT !.closed = IF StopSignalled THEN ui.closed
                                  ELSE ui.closed \cup {ui.stopChan},
                      !.isChecking = FALSE]
  /\ UNCHANGED uiFrame

\* CheckFile while not q.isChecking: a new stop channel, isChecking set; the file
\* is read next
CheckFileBegin ==
  /\ UiAlive
  /\ ui.pc = "idle"
  /\ ~ui.isChecking
  /\ ui.nRuns < MaxRuns
  /\ ui' = [ui EXCEPT !.pc = "load", !.nRuns = ui.nRuns + 1, !.stopChan = ui.nRuns + 1,
                      !.isChecking = TRUE]
  /\ UNCHANGED uiFrame

\* the files the user opens: each has one link less than the one before
UiFileLinks(k) == IF k <= MaxUiLinks THEN MaxUiLinks + 1 - k ELSE 0

\* the file cannot be opened or holds no supported link (n = 0): isChecking is
\* reset and the call returns. Otherwise, under the mutex, the table is replaced
\* by one of n rows "doing".
CheckFileLoad(n) ==
  /\ UiAlive
  /\ ui.pc = "load"
  /\ IF n = 0
       THEN ui' = [ui EXCEPT !.pc = "idle", !.isChecking = FALSE]
       ELSE /\ ~ui.locked
            /\ ui' = [ui EXCEPT !.pc = "submit", !.data = [i \in 1..n |-> DoingTxt],
                                !.runs[ui.nRuns].n = n]
  /\ UNCHANGED uiFrame

\* a pool is made and started, every task is submitted (the stop channel is the
\* one this call made, so the submission loop runs to its end), the result
\* goroutine is started, and the call returns
CheckFileSubmit ==
  /\ UiAlive
  /\ ui.pc = "submit"
  /\ ui' = [ui EXCEPT !.pc = "idle", !.runs[ui.nRuns] = NewUiRun(ui.runs[ui.nRuns].n)]
  /\ UNCHANGED uiFrame

\* ------------------------------------------- the worker of a run and its tasks
\* worker: case <-q.ctx.Done()
UiWorkerCtxDone(r) ==
  /\ UiAlive
  /\ ui.runs[r].wpc = "select"
  /\ ui.runs[r].ctxDone
  /\ ui' = [ui EXCEPT !.runs[r].wpc = "exited"]
  /\ UNCHANGED uiFrame

\* worker: case task, ok := <-q.taskQueue with !ok
UiWorkerQueueClosed(r) ==
  /\ UiAlive
  /\ ui.runs[r].wpc = "select"
  /\ ui.runs[r].queue = <<>>
  /\ ui.runs[r].queueClosed
  /\ ui' = [ui EXCEPT !.runs[r].wpc = "exited"]
  /\ UNCHANGED uiFrame

\* worker: case task, ok := <-q.taskQueue with ok (a closed queue still hands out
\* the tasks it holds)
UiWorkerTake(r) ==
  /\ UiAlive
  /\ ui.runs[r].wpc = "select"
  /\ ui.runs[r].queue # <<>>
  /\ ui' = [ui EXCEPT !.runs[r].wpc = "exec", !.runs[r].wtask = Head(ui.runs[r].queue),
                      !.runs[r].queue = Tail(ui.runs[r].queue)]
  /\ UNCHANGED uiFrame

\* the select of a task body: <-q.stopChan gives Stop, <-ctx.Done() gives Done;
\* the default case, taken when neither is ready, gives `otherwise`
UiBodySelect(r, otherwise) ==
  (IF StopSignalled THEN {TaskResult(ui.runs[r].wtask, Stop)} ELSE {})
    \cup (IF ui.runs[r].ctxDone THEN {TaskResult(ui.runs[r].wtask, Done)} ELSE {})
    \cup (IF ~StopSignalled /\ ~ui.runs[r].ctxDone THEN {otherwise} ELSE {})

\* worker: select { case q.resultChan <- result: case <-q.ctx.Done(): }, where
\* the channel has room for every result of the run: what becomes of the run
\* when the worker has `value` to send
UiWorkerSend(r, from, value) ==
  {[from EXCEPT !.runs[r].results = Append(ui.runs[r].results, value),
                !.runs[r].wpc = "select", !.runs[r].wtask = 0]}
    \cup (IF ui.runs[r].ctxDone
            THEN {[from EXCEPT !.runs[r].wpc = "select", !.runs[r].wtask = 0]}
            ELSE {})

\* the task body locks the mutex and reads q.tableDataWrapper.Data[index]: the
\* table is the one the latest CheckFile call has made. An index outside it
\* panics with the mutex held; executeTask recovers the panic, the worker sends
\* a Result without Value, and the mutex is never unlocked. Otherwise the row
\* becomes "doing" unless it is "stopped", the mutex is unlocked, and the first
\* select either ends the body or lets it go on to core.Adapter.
UiTaskMarkDoing(r) ==
  /\ UiAlive
  /\ ui.runs[r].wpc = "exec"
  /\ ~ui.locked
  /\ LET index == ui.runs[r].wtask IN
       IF index > Len(ui.data)
         THEN ui' \in UiWorkerSend(r, [ui EXCEPT !.locked = TRUE], Nil)
         ELSE LET marked == [ui EXCEPT !.data[index] =
                                         IF ui.data[index] # StopTxt THEN DoingTxt
                                         ELSE ui.data[index]]
              IN \E value \in UiBodySelect(r, Nil) :
                   IF value = Nil
                     THEN ui' = [marked EXCEPT !.runs[r].wpc = "adapter"]
                     ELSE ui' \in UiWorkerSend(r, marked, value)
  /\ UNCHANGED uiFrame

\* core.Adapter returns, the second select makes the task's result, and the
\* worker sends it
UiTaskAdapter(r) ==
  /\ UiAlive
  /\ ui.runs[r].wpc = "adapter"
  /\ \E value \in UiBodySelect(r, TaskResult(ui.runs[r].wtask, Valid)) :
       ui' \in UiWorkerSend(r, ui, value)
  /\ UNCHANGED uiFrame

\* ------------------------------------------------ the stop listener of a run
\* the listener reaches its select: the channel it will wait on is the one
\* q.stopChan refers to at that moment
UiListenerEnter(r) ==
  /\ UiAlive
  /\ ui.runs[r].lpc = "start"
  /\ ui' = [ui EXCEPT !.runs[r].lpc = "waiting", !.runs[r].lchan = ui.stopChan]
  /\ UNCHANGED uiFrame

\* close(q.taskQueue) of Stop() and of Wait()
UiCloseTaskQueue(r, before, after) ==
  IF ui.runs[r].queueClosed
    THEN ui' = [before EXCEPT !.panic = "close of closed channel"]
    ELSE ui' = after

\* close(q.resultChan) of Stop() and of Wait()
UiCloseResultChan(r, after) ==
  IF ui.runs[r].resultsClosed
    THEN ui' = [ui EXCEPT !.panic = "close of closed channel"]
    ELSE ui' = after

\* case <-q.stopChan: under the mutex every row of q.tableDataWrapper.Data that
\* is "doing" becomes "stopped"; then pool.Stop() begins: q.cancel();
\* close(q.taskQueue)
UiListenerMark(r) ==
  /\ UiAlive
  /\ ui.runs[r].lpc = "waiting"
  /\ ui.runs[r].lchan \in ui.closed
  /\ ~ui.locked
  /\ LET marked == [ui EXCEPT !.data = [i \in DOMAIN ui.data |->
                                         IF ui.data[i] = DoingTxt THEN StopTxt
                                         ELSE ui.data[i]]]
     IN UiCloseTaskQueue(r, marked,
                         [marked EXCEPT !.runs[r].ctxDone = TRUE,
                                        !.runs[r].queueClosed = TRUE,
                                        !.runs[r].lpc = "wgWait"])
  /\ UNCHANGED uiFrame

\* pool.Stop(): q.wg.Wait(); close(q.resultChan)
UiListenerStopped(r) ==
  /\ UiAlive
  /\ ui.runs[r].lpc = "wgWait"
  /\ ui.runs[r].wpc = "exited"
  /\ UiCloseResultChan(r, [ui EXCEPT !.runs[r].resultsClosed = TRUE,
                                    !.runs[r].lpc = "done"])
  /\ UNCHANGED uiFrame

\* -------------------------------------------- the completion monitor of a run
\* for atomic.LoadInt32(&completedCount) < int32(totalTasks) { select { case
\* <-q.stopChan: return; default: sleep } }; then pool.Wait() begins:
\* close(q.taskQueue)
UiMonitorLoop(r) ==
  /\ UiAlive
  /\ ui.runs[r].mpc = "loop"
  /\ IF ui.runs[r].completed < ui.runs[r].n
       THEN /\ StopSignalled
            /\ ui' = [ui EXCEPT !.runs[r].mpc = "done"]
       ELSE UiCloseTaskQueue(r, ui, [ui EXCEPT !.runs[r].queueClosed = TRUE,
                                               !.runs[r].mpc = "wgWait"])
  /\ UNCHANGED uiFrame

\* pool.Wait(): q.wg.Wait(); close(q.resultChan); then, if q.isChecking, a
\* function is queued for the UI goroutine (fyne.Do)
UiMonitorWaited(r) ==
  /\ UiAlive
  /\ ui.runs[r].mpc = "wgWait"
  /\ ui.runs[r].wpc = "exited"
  /\ UiCloseResultChan(r, [ui EXCEPT !.runs[r].resultsClosed = TRUE,
                                    !.runs[r].mpc = IF ui.isChecking THEN "queued"
                                                    ELSE "done"])
  /\ UNCHANGED uiFrame

\* the UI goroutine runs the queued function: the button is restored and
\* q.isChecking = false
UiMonitorReset(r) ==
  /\ UiAlive
  /\ ui.runs[r].mpc = "queued"
  /\ ui.pc = "idle"
  /\ ui' = [ui EXCEPT !.isChecking = FALSE, !.runs[r].mpc = "done"]
  /\ UNCHANGED uiFrame

\* --------------------------------------------------- the result loop of a run
\* resultProcessDone: if q.isChecking, the button is restored and isChecking reset
UiResultProcessDone(r) ==
  ui' = [ui EXCEPT !.isChecking = FALSE, !.runs[r].rpc = "done"]

\* for processedCount < totalTasks: the loop ends
UiResultLoopExit(r) ==
  /\ UiAlive
  /\ ui.runs[r].rpc = "select"
  /\ ui.runs[r].processed >= ui.runs[r].n
  /\ UiResultProcessDone(r)
  /\ UNCHANGED uiFrame

\* case <-timeoutCtx.Done(): two minutes have passed since the loop began
UiResultTimeout(r) ==
  /\ UiAlive
  /\ ui.runs[r].rpc = "select"
  /\ ui.runs[r].processed < ui.runs[r].n
  /\ UiResultProcessDone(r)
  /\ UNCHANGED uiFrame

\* case <-q.stopChan
UiResultStopped(r) ==
  /\ UiAlive
  /\ ui.runs[r].rpc = "select"
  /\ ui.runs[r].processed < ui.runs[r].n
  /\ StopSignalled
  /\ UiResultProcessDone(r)
  /\ UNCHANGED uiFrame

\* case result, ok := <-resultsChan with ok: the result is counted; the inner
\* select skips it when <-q.stopChan is ready, and a Value that is no taskResult
\* is skipped. (With !ok the loop selects again.)
UiResultReceive(r) ==
  /\ UiAlive
  /\ ui.runs[r].rpc = "select"
  /\ ui.runs[r].processed < ui.runs[r].n
  /\ ui.runs[r].results # <<>>
  /\ LET value == Head(ui.runs[r].results)
         counted == [ui EXCEPT !.runs[r].results = Tail(ui.runs[r].results),
                               !.runs[r].processed = ui.runs[r].processed + 1]
     IN IF StopSignalled \/ value.nil
          THEN ui' = counted
          ELSE ui' = [counted EXCEPT !.runs[r].rpc = "check", !.runs[r].cur = value]
  /\ UNCHANGED uiFrame

\* under the read lock: index < len(q.tableDataWrapper.Data), else continue
UiResultCheckIndex(r) ==
  /\ UiAlive
  /\ ui.runs[r].rpc = "check"
  /\ ~ui.locked
  /\ ui' = IF ui.runs[r].cur.index <= Len(ui.data)
             THEN [ui EXCEPT !.runs[r].rpc = "update"]
             ELSE [ui EXCEPT !.runs[r].rpc = "select", !.runs[r].cur = Nil]
  /\ UNCHANGED uiFrame

\* under the mutex: the row of q.tableDataWrapper.Data is written unless it is
\* "stopped" (an index outside the table panics); then the completed counter is
\* incremented
UiResultUpdateRow(r) ==
  /\ UiAlive
  /\ ui.runs[r].rpc = "update"
  /\ ~ui.locked
  /\ LET index == ui.runs[r].cur.index IN
       IF index > Len(ui.data)
         THEN ui' = [ui EXCEPT !.panic = "index out of range"]
         ELSE ui' = [ui EXCEPT !.data[index] = IF ui.data[index] # StopTxt
                                                THEN RowStatus(ui.runs[r].cur)
                                                ELSE ui.data[index],
                               !.runs[r].completed = ui.runs[r].completed + 1,
                               !.runs[r].rpc = "select", !.runs[r].cur = Nil]
  /\ UNCHANGED uiFrame

\* ------------------------------------------------------ the CheckUI and its runs
NextUi ==
  \/ CheckFileStop
  \/ CheckFileBegin
  \/ \E n \in {0, UiFileLinks(ui.nRuns)} : CheckFileLoad(n)
  \/ CheckFileSubmit
  \/ \E r \in UiRuns : UiWorkerCtxDone(r)
  \/ \E r \in UiRuns : UiWorkerQueueClosed(r)
  \/ \E r \in UiRuns : UiWorkerTake(r)
  \/ \E r \in UiRuns : UiTaskMarkDoing(r)
  \/ \E r \in UiRuns : UiTaskAdapter(r)
  \/ \E r \in UiRuns : UiListenerEnter(r)
  \/ \E r \in UiRuns : UiListenerMark(r)
  \/ \E r \in UiRuns : UiListenerStopped(r)
  \/ \E r \in UiRuns : UiMonitorLoop(r)
  \/ \E r \in UiRuns : UiMonitorWaited(r)
  \/ \E r \in UiRuns : UiMonitorReset(r)
  \/ \E r \in UiRuns : UiResultLoopExit(r)
  \/ \E r \in UiRuns : UiResultTimeout(r)
  \/ \E r \in UiRuns : UiResultStopped(r)
  \/ \E r \in UiRuns : UiResultReceive(r)
  \/ \E r \in UiRuns : UiResultCheckIndex(r)
  \/ \E r \in UiRuns : UiResultUpdateRow(r)

SpecUi == Init /\ [][NextUi]_vars

\* the result goroutine of a run is scheduled: a step it can take is taken
UiResultStep(r) ==
  \/ UiResultLoopExit(r)
  \/ UiResultTimeout(r)
  \/ UiResultStopped(r)
  \/ UiResultReceive(r)
  \/ UiResultCheckIndex(r)
  \/ UiResultUpdateRow(r)

SpecUiFair == SpecUi /\ \A r \in UiRuns : WF_vars(UiResultStep(r))

\* ================================================================== claims

TornDown == stopPc = "done" \/ waitPc = "done"
SubmitCalled == submitCount' = submitCount + 1

\* C1: after the pool has been torn down by Stop() or Wait(), a Submit call
\* returns false and does not panic.
C1_SubmitAfterTeardownReturnsFalse ==
  [][(TornDown /\ SubmitCalled) => (submitRet' = "false" /\ panicked' = "none")]_vars

\* C2: Submit never blocks on a live pool: the call is always possible; on a full
\* queue it returns false and leaves the queue as it was, otherwise it appends
\* the task and returns true.
SubmitNeverBlocks ==
  (Alive /\ ~queueClosed /\ submitCount < MaxSubmit) => ENABLED (\E url \in URLs : Submit(url))
SubmitEffect ==
  (~queueClosed /\ SubmitCalled) =>
     IF Len(taskQueue) >= queueSize
       THEN submitRet' = "false" /\ taskQueue' = taskQueue
       ELSE /\ submitRet' = "true"
            /\ Len(taskQueue') = Len(taskQueue) + 1
            /\ SubSeq(taskQueue', 1, Len(taskQueue)) = taskQueue
            /\ taskQueue'[Len(taskQueue')].url \in URLs
C2_SubmitNonBlocking == [](SubmitNeverBlocks) /\ [][SubmitEffect]_vars
\* a Submit call was rejected on a full queue of a live pool while a worker was busy
C2_Witness ==
  /\ submitRet = "false"
  /\ ~queueClosed
  /\ Len(taskQueue) = queueSize
  /\ \E w \in Workers : wpc[w] \in ExecPcs

\* C3: the heavy tasks whose body is executing never exceed LongMaxConcurrent.
HeavyExecuting == {w \in Workers : wpc[w] \in ExecPcs /\ IsLongTask(wtask[w].url)}
C3_HeavyCeiling == Cardinality(HeavyExecuting) <= LongMaxConcurrent
\* the ceiling is reached and a further heavy task waits for a slot
C3_Witness ==
  /\ Cardinality(HeavyExecuting) = LongMaxConcurrent
  /\ \E w \in Workers : wpc[w] = "acquire"

\* C4: the results received never exceed the tasks accepted; under Wait() the
\* consumer that drains Results() has received exactly one Result per accepted
\* task when it sees the channel closed.
C4_ResultsMatchAccepted ==
  /\ nReceived <= nAccepted
  /\ (sawClose /\ waitPc = "done") => nReceived = nAccepted
\* Wait() closed the channel after two accepted tasks, one of which panicked
C4_Witness ==
  /\ sawClose
  /\ waitPc = "done"
  /\ nAccepted >= 2
  /\ recovered.n >= 1

\* C11: under Wait() every accepted task is taken from the queue by exactly one
\* worker and run once with a context that is not cancelled; when Wait() has
\* returned the queue is empty, no worker holds a task and one Result per accepted
\* task was sent; the results channel is closed only after all of them were sent.
WaitReturnsAfterAll ==
  waitPc = "done" =>
    /\ ~ctxDone
    /\ taskQueue = <<>>
    /\ \A w \in Workers : wpc[w] = "exited" /\ wtask[w] = NoTask
    /\ nReceived + Len(resultChan) = nAccepted
ClosedAfterAllSent ==
  (waitPc # "idle" /\ resultClosed) => nReceived + Len(resultChan) = nAccepted
TakenByOneWorker ==
  /\ (Len(taskQueue') < Len(taskQueue)) =>
       /\ taskQueue' = Tail(taskQueue)
       /\ \E w \in Workers :
            /\ wpc[w] = "select"
            /\ wtask'[w] = Head(taskQueue)
            /\ \A v \in Workers \ {w} : wtask'[v] = wtask[v] /\ wpc'[v] = wpc[v]
  /\ \A w \in Workers :
       (wtask'[w] # wtask[w] /\ wtask'[w] # NoTask) =>
          /\ taskQueue # <<>>
          /\ wtask'[w] = Head(taskQueue)
          /\ taskQueue' = Tail(taskQueue)
ExecutedOnce ==
  \A w \in Workers :
    /\ (wpc[w] \in ExecPcs /\ wpc'[w] \notin ExecPcs) =>
          (wpc'[w] \in {"release", "send"} /\ wtask'[w] = wtask[w])
    /\ (wpc[w] \in {"release", "send"}) => (wpc'[w] \in {"release", "send", "select"})
    /\ (wpc[w] \in ExecPcs /\ waitPc # "idle") => ~ctxDone
C11_WaitDrainsAccepted ==
  /\ [](WaitReturnsAfterAll /\ ClosedAfterAllSent)
  /\ [][TakenByOneWorker /\ ExecutedOnce]_vars
\* Wait() has returned after two accepted tasks whose results the consumer took
C11_Witness ==
  /\ waitPc = "done"
  /\ nAccepted >= 2
  /\ nReceived = nAccepted
  /\ sawClose

\* C12: under Wait() with a draining consumer and task bodies that end, Wait()
\* returns with the queue empty, and a worker waiting for a slot of the heavy
\* semaphore gets to run its task.
C12_NoStarvation ==
  /\ (waitPc # "idle") ~> (waitPc = "done" /\ taskQueue = <<>>)
  /\ \A w \in 1..NumWorkers :
       (waitPc # "idle" /\ wpc[w] = "acquire") ~> (wpc[w] \in ExecPcs)
\* Wait() is under way, the semaphore is full, a heavy task waits for a slot and a
\* normal task is still queued
C12_Witness ==
  /\ waitPc # "idle"
  /\ longTaskSemaphore = LongMaxConcurrent
  /\ \E w \in Workers : wpc[w] = "acquire"
  /\ taskQueue # <<>>
  /\ ~IsLongTask(Head(taskQueue).url)

\* C8: Stop() always returns, even with a full results channel nobody receives from.
C8_StopReturns == (stopPc # "idle") ~> (stopPc = "done")
\* Stop() returned although the results channel is full and nothing was received
C8_Witness ==
  /\ stopPc = "done"
  /\ Len(resultChan) = ResultQueueSize
  /\ nReceived = 0
  /\ nAccepted >= 2

\* C9: a panic inside a task body does not end the worker: the worker leaves
\* executeTask with a Result whose Value is nil and stays in its loop; workers
\* exit only when the pool is torn down.
PanicIsRecovered ==
  (recovered'.n = recovered.n + 1) =>
     LET w == recovered'.w IN
       /\ wpc[w] \in ExecPcs
       /\ wpc'[w] \in {"release", "send"}
       /\ wresult'[w].Value = Nil
       /\ panicked' = "none"
WorkersExitOnlyOnTeardown ==
  \A w \in Workers : wpc[w] = "exited" => (ctxDone \/ queueClosed)
C9_PanicKeepsWorker == [](WorkersExitOnlyOnTeardown) /\ [][PanicIsRecovered]_vars
\* the worker that recovered a panic is running a later task
C9_Witness ==
  /\ recovered.n >= 1
  /\ wpc[recovered.w] \in ExecPcs

\* C10: the slots held in the semaphore are exactly those of the heavy tasks
\* between acquire and release, whether the body returned or panicked; with no
\* such task the semaphore is empty.
HoldsSlot(w) == IsLongTask(wtask[w].url) /\ wpc[w] \in (ExecPcs \cup {"release"})
C10_NoSlotLeak ==
  /\ longTaskSemaphore = Cardinality({w \in Workers : HoldsSlot(w)})
  /\ (\A w \in Workers : ~HoldsSlot(w)) => longTaskSemaphore = 0
\* a heavy task panicked, its slot was released and the semaphore is empty
C10_Witness ==
  /\ recovered.n >= 1
  /\ wpc[recovered.w] = "send"
  /\ IsLongTask(wtask[recovered.w].url)
  /\ wresult[recovered.w].Value = Nil
  /\ longTaskSemaphore = 0

\* C5: in a run the user does not stop, every row gets a final outcome: once the
\* result loop has ended and no failed-submission goroutine is pending, nothing
\* is left to finish a row, so no row may still be "doing".
C5_EveryRowGetsOutcome ==
  (/\ resultPc = "done"
   /\ ~stopChanClosed
   /\ \A i \in Rows : failPc[i] # "run")
  => \A i \in Rows : tableData[i] # DoingTxt

\* C6: at most one of Stop() and Wait() is ever called on the pool of a run.
C6_SingleTeardown == ~(stopPc # "idle" /\ waitPc # "idle")

\* C7: a row that is "stopped" stays "stopped".
StoppedStays == \A i \in Rows : tableData[i] = StopTxt => tableData'[i] = StopTxt
C7_StoppedIsFinal == [][StoppedStays]_vars
\* the result loop is about to write a real outcome to a row that is "stopped"
C7_Witness ==
  /\ resultPc = "update"
  /\ cur.Error \in AdapterErrors
  /\ tableData[cur.index] = StopTxt

\* C13: with a transport that fails the first k attempts and then succeeds, and a
\* context that stays live, DoWithRetry returns that response after exactly k+1
\* attempts, having waited RetryInterval*1, ..., RetryInterval*k; it never makes
\* more than m+1 attempts, where m is the maxRetries it was given if that is
\* positive and the configured RetryCount otherwise.
IsFailure(outcome) == outcome \in {"s500", "timeout", "neterr", "ctx"}
WaitsGrow ==
  /\ dwr.waits = [i \in 1..Len(dwr.waits) |-> RetryInterval * i]
  /\ \A i \in 1..(Len(dwr.waits) - 1) : dwr.waits[i] <= dwr.waits[i + 1]
  /\ dwr.pc = "send" => Len(dwr.waits) = Len(dwr.sent)
ReturnsFirstSuccess ==
  (dwr.pc = "returned" /\ reqCtx.err = "none") =>
    LET n == Len(dwr.sent) IN
      /\ \A i \in 1..(n - 1) : IsFailure(dwr.sent[i])
      /\ Len(dwr.waits) = n - 1
      /\ IF IsFailure(dwr.sent[n])
           THEN dwr.ret.err # NilErr /\ n = dwr.maxRetries + 1
           ELSE dwr.ret = [resp |-> dwr.sent[n], err |-> NilErr]
C14_ErrorsClassified ==
  (dwr.pc = "returned" /\ dwr.ret.err # NilErr) =>
    IF reqCtx.err = "DeadlineExceeded" /\ reqCtx.during # "returned"
      THEN IsTimeoutError(dwr.ret.err)
      ELSE IF dwr.sent[Len(dwr.sent)] = "timeout"
             THEN IsTimeoutError(dwr.ret.err)
             ELSE dwr.ret.err.kind = "AppError" /\ dwr.ret.err.Type = ErrTypeRequest

\* C15: a check whose context was cancelled or passed its deadline while the
\* request was in flight returns Timeout or Stopped/Cancelled, never Fatal or Valid.
C15_CancelledCheckNotFatal ==
  (chk.pc = "done" /\ reqCtx.err # "none" /\ reqCtx.during = "send") =>
    chk.Error \in {Timeout, Stop}

\* C16: when DoWithRetry returned an error it classified as Timeout, the check's
\* outcome is Timeout.
C16_TimeoutKept ==
  (chk.pc = "done" /\ IsTimeoutError(dwr.ret.err)) => chk.Error = Timeout

\* C17: for a non-empty URL that a registered prefix matches, Adapter calls the
\* strategy and returns its Result with URL set to the input, Elapsed >= 0 and
\* Name set to the strategy's name without its leading and trailing whitespace;
\* Error and Msg are those of the strategy.
IsPrefixOf(p, s) == Len(p) <= Len(s) /\ \A i \in 1..Len(p) : s[i] = p[i]
Matches(urlStr) == \E prefix \in DOMAIN checkers : IsPrefixOf(prefix, urlStr)
IsTrimOf(t, s) ==
  /\ t # <<>> => ~IsSpace(t[1]) /\ ~IsSpace(t[Len(t)])
  /\ \E i \in 0..Len(s), j \in 0..Len(s) :
       /\ i + j <= Len(s)
       /\ t = SubSeq(s, i + 1, Len(s) - j)
       /\ \A k \in 1..i : IsSpace(s[k])
       /\ \A k \in (Len(s) - j + 1)..Len(s) : IsSpace(s[k])
C17_AdapterKeepsOutcome ==
  (adapterCall.pc = "returned" /\ adapterCall.urlStr # <<>> /\ Matches(adapterCall.urlStr)) =>
    /\ Len(adapterCall.invoked) = 1
    /\ adapterCall.result.Data.URL = adapterCall.urlStr
    /\ adapterCall.result.Data.Elapsed >= 0
    /\ IsTrimOf(adapterCall.result.Data.Name, adapterCall.strategy.Data.Name)
    /\ adapterCall.result.Error = adapterCall.strategy.Error
    /\ adapterCall.result.Msg = adapterCall.strategy.Msg
\* the strategy returned a name with whitespace on both sides, and a URL other
\* than the input; time has passed
C17_Witness ==
  /\ adapterCall.pc = "returned"
  /\ adapterCall.strategy.Data.Name = <<" ", "n", " ">>
  /\ adapterCall.result.Data.Name = <<"n">>
  /\ adapterCall.strategy.Data.URL # adapterCall.urlStr
  /\ adapterCall.result.Data.Elapsed > 0

\* C18: Adapter("") returns Malformed and calls no strategy, whatever the
\* registry holds.
C18_EmptyUrlMalformed ==
  (adapterCall.pc # "idle" /\ adapterCall.urlStr = <<>>) =>
    /\ adapterCall.pc = "returned"
    /\ adapterCall.result.Error = Malformed
    /\ adapterCall.invoked = <<>>
\* Adapter("") has returned with a registry in which a prefix matches ""
C18_Witness ==
  /\ adapterCall.pc = "returned"
  /\ adapterCall.urlStr = <<>>
  /\ Matches(<<>>)
  /\ adapterCall.result.Error = Malformed

\* C19: for a non-empty URL that no registered prefix matches, GetChecker
\* returns nil and Adapter returns Malformed with the "unsupported" message and
\* the URL, calling no strategy; and a checker GetChecker returns is registered
\* under a prefix of the URL.
C19_UnsupportedUrlMalformed ==
  /\ (adapterCall.pc # "idle" /\ adapterCall.urlStr # <<>> /\ ~Matches(adapterCall.urlStr)) =>
       /\ adapterCall.pc = "returned"
       /\ adapterCall.checker = "nil"
       /\ adapterCall.result.Error = Malformed
       /\ adapterCall.result.Msg = LinkUnsupportedMsg
       /\ adapterCall.result.Data.URL = adapterCall.urlStr
       /\ adapterCall.invoked = <<>>
  /\ (adapterCall.pc # "idle" /\ adapterCall.checker # "nil") =>
       \E prefix \in DOMAIN checkers :
         /\ checkers[prefix] = adapterCall.checker
         /\ IsPrefixOf(prefix, adapterCall.urlStr)
\* Adapter returned "unsupported" for a URL while checkers are registered
C19_Witness ==
  /\ adapterCall.pc = "returned"
  /\ adapterCall.urlStr # <<>>
  /\ DOMAIN checkers # {}
  /\ ~Matches(adapterCall.urlStr)
  /\ adapterCall.result.Msg = LinkUnsupportedMsg

\* C20: the Msg of a Result built by ErrorMalformed, ErrorUnknown, ErrorInvalid
\* or ErrorFatal from a message is at most MsgMaxLen characters of the message,
\* followed by "..." when the message was shortened: the builder returns, and
\* its Msg is never longer than MsgMaxLen + 3 characters.
TakeChars(str, n) ==
  IF RuneCountInString(str) <= n THEN str ELSE SubSeq(str, 1, Range(str)[n + 1])
C20_MsgBounded ==
  (msgCall.pc # "idle" /\ msgCall.msg # <<>>) =>
    /\ msgCall.pc = "returned"
    /\ RuneCountInString(msgCall.result.Msg) <= MsgMaxLen + 3
    /\ \/ msgCall.result.Msg = TakeChars(msgCall.msg, MsgMaxLen)
       \/ msgCall.result.Msg = TakeChars(msgCall.msg, MsgMaxLen) \o Marker

\* C21: SetDefaultHeaders changes no header the caller had set: a header present
\* before the call has the same value after it, and the headers the call adds
\* are default headers that were absent.
C21_DefaultsKeepCallerHeaders ==
  req.pc = "defaults" =>
    /\ \A k \in DOMAIN req.before : req.Header[k] = req.before[k]
    /\ \A k \in DOMAIN req.Header \ DOMAIN req.before :
         \E i \in 1..Len(DefaultHeaders) :
           /\ k = CanonicalMIMEHeaderKey(DefaultHeaders[i][1])
           /\ req.Header[k] = DefaultHeaders[i][2]

\* C22: the body of every response DoWithRetry received and did not return (a
\* 5xx) is fully read and closed before the next attempt and before the return.
C22_UnreturnedBodiesDrained ==
  \A i \in 1..Len(dwr.bodies) : dwr.bodies[i].unread = 0 /\ dwr.bodies[i].closed

\* C23: a check whose URL fails the strategy's validation returns Malformed
\* without a network request, and a check that has issued a request has a URL
\* that passed the validation.
NetworkRequests == Len(dwr.sent) + chk.requests
C23_ValidatedBeforeRequest ==
  /\ (chk.pc # "idle" /\ ~Validate(chk.strategy, chk.url)) =>
       /\ chk.pc = "done"
       /\ chk.Error = Malformed
       /\ NetworkRequests = 0
       /\ dwr.pc = "idle"
  /\ (chk.pc # "idle" /\ (NetworkRequests > 0 \/ dwr.pc # "idle")) =>
       Validate(chk.strategy, chk.url)
\* checkQuark has rejected a URL with no resource id, having sent nothing
C23_Witness ==
  /\ chk.pc = "done"
  /\ chk.strategy = "quark"
  /\ chk.url = "noid"
  /\ chk.Error = Malformed
  /\ NetworkRequests = 0

\* C24: a task whose Submit fails is submitted at most maxRetries (5) times, the
\* sleep after each failed attempt but the last being RetryDelay * 2^attempt
\* (300, 600, 1200, 2400 ms); after the fifth failure the task is nowhere in the
\* pool, its row becomes "malformed" unless it is "stopped", and completedCount
\* grows by one for it, once.
TaskOfRowInPool(i) ==
  \/ \E k \in 1..Len(taskQueue) : taskQueue[k].index = i
  \/ \E w \in Workers : wtask[w].index = i
  \/ cur.index = i
RetryLoopBounded ==
  /\ attempt <= maxRetries - 1
  /\ retryDelay = RetryDelay * 2 ^ attempt
  /\ \A i \in Rows : failPc[i] # "idle" => ~TaskOfRowInPool(i)
RetryLoopStep ==
  /\ attempt' = attempt + 1 =>
       /\ submitRet' = "false"
       /\ retryDelay' = 2 * retryDelay
       /\ Len(taskQueue') = Len(taskQueue)
  /\ \A i \in Rows :
       /\ (failPc[i] = "idle" /\ failPc'[i] # "idle") =>
            /\ attempt = maxRetries - 1
            /\ submitRet' = "false"
            /\ Len(taskQueue') = Len(taskQueue)
       /\ failPc[i] # "idle" => failPc'[i] # "idle"
       /\ failPc[i] = "done" => failPc'[i] = "done"
       /\ (failPc[i] = "run" /\ failPc'[i] # "run") =>
            /\ completedCount' = completedCount + 1
            /\ tableData[i] \in {DoingTxt, StopTxt}
            /\ tableData'[i] = IF tableData[i] = StopTxt THEN StopTxt ELSE MalformedTxt
  /\ completedCount' # completedCount =>
       \/ \E i \in Rows : failPc[i] = "run" /\ failPc'[i] = "done"
       \/ resultPc = "update" /\ failPc[cur.index] = "idle"
C24_FailedSubmissionReported == []RetryLoopBounded /\ [][RetryLoopStep]_vars
\* the second link was refused five times, after sleeps of 300, 600, 1200 and
\* 2400 ms, and its row has been marked
C24_Witness ==
  /\ failPc[2] = "done"
  /\ tableData[2] = MalformedTxt
  /\ attempt = maxRetries - 1
  /\ retryDelay = 4800
  /\ completedCount >= 1

\* C25: once q.stopChan is closed, a task body that reaches its first select
\* never goes on to core.Adapter: it returns the Stop (or Done) result; and the
\* submission loop that sees the closed channel leaves without another Submit.
StoppedBodySkipsAdapter ==
  \A w \in Workers :
    (stopChanClosed /\ wpc[w] = "bodySelect" /\ wpc'[w] # "bodySelect") =>
      /\ wpc'[w] # "bodyAdapter"
      /\ wresult'[w].Value.index = wtask[w].index
      /\ wresult'[w].Value.Error \in {Stop, Done}
StoppedLoopSubmitsNoMore ==
  /\ (stopChanClosed /\ mainPc = "loop" /\ mainPc' # "loop") => mainPc' = "spawn"
  /\ (mainPc \in {"spawn", "done"}) => (mainPc' # "submit" /\ nAccepted' = nAccepted)
NoRowDoing == \A i \in Rows : tableData[i] # DoingTxt
ListenerRelabels ==
  (listenerPc = "waiting" /\ listenerPc' # "waiting") =>
    /\ stopChanClosed
    /\ stopPc = "idle"
    /\ \A i \in Rows :
         tableData'[i] = IF tableData[i] = DoingTxt THEN StopTxt ELSE tableData[i]
StopAfterRelabel ==
  (stopPc = "idle" /\ stopPc' # "idle") => (listenerPc = "stop" /\ NoRowDoing)
TaskCarriesRow(task) == task.index \in Rows /\ task.url = links[task.index]
OnlyRowChanges(i) == \A j \in Rows \ {i} : tableData'[j] = tableData[j]
PayloadsKeepIndex ==
  /\ \A k \in 1..Len(taskQueue) : TaskCarriesRow(taskQueue[k])
  /\ \A w \in Workers : wpc[w] \in ExecPcs => TaskCarriesRow(wtask[w])
ResultWritesItsRow ==
  /\ \A w \in Workers :
       (wpc[w] \in ExecPcs /\ wpc'[w] \notin ExecPcs /\ ~wresult'[w].Value.nil) =>
         wresult'[w].Value.index = wtask[w].index
  /\ \A w \in Workers :
       (wpc[w] = "exec" /\ wpc'[w] = "bodySelect") => OnlyRowChanges(wtask[w].index)
  /\ (resultPc = "update" /\ resultPc' # "update") =>
       /\ OnlyRowChanges(cur.index)
       /\ tableData[cur.index] # StopTxt => tableData'[cur.index] = RowStatus(cur)
C27_ResultsMatchedByIndex == []PayloadsKeepIndex /\ [][ResultWritesItsRow]_vars
\* the second row's result arrived first and was written while the first row is
\* still "doing"
C27_Witness ==
  /\ processedCount = 1
  /\ resultPc = "select"
  /\ tableData[1] = DoingTxt
  /\ tableData[2] \notin {DoingTxt, StopTxt}

\* C28: checkXunlei returns the "violating content" result only for a page in
\* which at least two of the violation keywords occur; a page with exactly one
\* of them and no deleted or expired marker is not Invalid for that reason.
XunleiReturned == auto.pc = "done" /\ auto.checker = "xunlei"
C28_ViolationNeedsTwoKeywords ==
  XunleiReturned =>
    /\ auto.result.Msg = ViolationMsg =>
         /\ auto.result.Error = Invalid
         /\ Cardinality(auto.page.marks \cap violationKeywords) >= 2
    /\ Cardinality(auto.page.marks \cap violationKeywords) = 1 =>
         auto.result.Msg # ViolationMsg
\* a page with two violation keywords was classified
C28_Witness ==
  /\ XunleiReturned
  /\ auto.result.Msg = ViolationMsg
  /\ Cardinality(auto.page.marks \cap violationKeywords) = 2

\* C29: when checkXunlei or checkYd has returned, the cancel function of every
\* context it created (allocator, browser, stage, retry, selector) has run.
C29_ContextsCancelledOnReturn ==
  auto.pc = "done" => auto.created \subseteq auto.cancelled
\* checkYd returned after its retry failed, with six contexts created
C29_Witness ==
  /\ auto.pc = "done"
  /\ auto.checker = "yd"
  /\ auto.result.Error = Fatal
  /\ {"exec", "browser", "firstStage", "retryExec", "retryBrowser", "retry"}
       \subseteq auto.created

\* C30: no prefix of one checker is a prefix of, or equal to, a prefix of
\* another checker, in the configuration and in the registry; so GetChecker has
\* one answer for every URL, whatever order the map is ranged over.
NoOverlap(providers) ==
  \A a, b \in DOMAIN providers :
    a # b => \A p \in providers[a], q \in providers[b] : ~HasPrefix(q, p)
C30_PrefixesDoNotOverlap ==
  /\ NoOverlap(DefaultProviders)
  /\ \A p, q \in DOMAIN checkers : checkers[p] # checkers[q] => ~HasPrefix(q, p)
  /\ \A urlStr \in DefaultUrls : Cardinality(GetChecker(urlStr)) = 1
  /\ adapterCall.pc = "check" =>
       \E p \in DefaultProviders[adapterCall.checker] : HasPrefix(adapterCall.urlStr, p)
\* with the nine checkers registered, a URL of the second telecom prefix went
\* to the telecom checker
C30_Witness ==
  /\ Registered = DOMAIN DefaultProviders
  /\ adapterCall.pc = "check"
  /\ adapterCall.checker = "telecom"
  /\ Len(adapterCall.urlStr) = Len(Https) + 16

\* C31: DoWithRetry never returns a 5xx response: a 5xx response ends the
\* attempt as a failure, the loop goes on to its backoff when an attempt
\* remains, and after the last attempt the call returns an error and no response.
Sent5xx ==
  /\ dwr.pc = "send"
  /\ Len(dwr'.sent) = Len(dwr.sent) + 1
  /\ dwr'.sent[Len(dwr'.sent)] = "s500"
ServerErrorIsFailedAttempt ==
  Sent5xx =>
    /\ dwr'.attempt = dwr.attempt + 1
    /\ dwr'.lastErr = NewResponseErrorWithStatus
    /\ IF dwr.attempt < dwr.maxRetries
         THEN dwr'.pc = "backoff"
         ELSE /\ dwr'.pc = "returned"
              /\ dwr'.ret.resp = "none"
              /\ dwr'.ret.err # NilErr
NoServerErrorReturned ==
  dwr.pc = "returned" =>
    /\ dwr.ret.resp # "s500"
    /\ (dwr.ret.err = NilErr) = (dwr.ret.resp # "none")
C31_ServerErrorNeverSuccess == []NoServerErrorReturned /\ [][ServerErrorIsFailedAttempt]_vars
\* every attempt of a call got a 5xx and the call returned the error
C31_Witness ==
  /\ dwr.pc = "returned"
  /\ Len(dwr.sent) = dwr.maxRetries + 1
  /\ \A k \in 1..Len(dwr.sent) : dwr.sent[k] = "s500"
  /\ dwr.ret.resp = "none"
  /\ dwr.ret.err = NewRequestError(NewResponseErrorWithStatus)

\* C32: a context cancelled during the backoff wait, or found cancelled after
\* a transport error, makes DoWithRetry return ctx.Err() in that step; client.Do
\* is never called again in the call, and a client.Do made on a cancelled
\* context gets no response.
CancelEndsTheCall ==
  /\ (dwr.pc = "backoff" /\ reqCtx.err # "none" /\ dwr' # dwr) =>
       /\ dwr'.pc = "returned"
       /\ dwr'.ret = [resp |-> "none", err |-> CtxErr(reqCtx.err)]
       /\ dwr'.sent = dwr.sent
  /\ (dwr.pc = "send" /\ reqCtx.err # "none" /\ dwr' # dwr) =>
       /\ dwr'.pc = "returned"
       /\ dwr'.ret = [resp |-> "none", err |-> CtxErr(reqCtx.err)]
       /\ dwr'.sent = Append(dwr.sent, "ctx")
  /\ (dwr.pc = "returned" /\ dwr'.pc # "idle") => dwr'.sent = dwr.sent
C32_NoAttemptAfterCancel == [][CancelEndsTheCall]_vars
\* the context was cancelled during the backoff after a failed first attempt;
\* the call returned with an attempt left and one request sent
C32_Witness ==
  /\ dwr.pc = "returned"
  /\ reqCtx.during = "backoff"
  /\ dwr.ret.err = CtxErr(reqCtx.err)
  /\ Len(dwr.sent) = 1
  /\ dwr.attempt <= dwr.maxRetries

\* C40: a call of DoWithRetry with maxRetries <= 0 (ucRequest passes 0) runs
\* with the configured RetryCount, so it makes a second attempt after a failed
\* first one and up to RetryCount + 1 attempts; a positive maxRetries is kept.
C40_ZeroMeansConfiguredRetries ==
  dwr.pc # "idle" =>
    /\ dwr.arg <= 0 =>
         /\ dwr.maxRetries = RetryCount
         /\ Len(dwr.sent) <= RetryCount + 1
         /\ dwr.pc = "backoff" => dwr.attempt \in 1..RetryCount
         /\ (dwr.pc = "returned" /\ dwr.ret.err # NilErr /\ reqCtx.err = "none") =>
              Len(dwr.sent) = RetryCount + 1
    /\ dwr.arg > 0 => dwr.maxRetries = dwr.arg
    /\ (chk.pc = "request" /\ chk.strategy = "uc") => dwr.arg = 0
\* ucRequest's call, made with 0, sent RetryCount + 1 requests
C40_Witness ==
  /\ chk.pc = "request"
  /\ chk.strategy = "uc"
  /\ dwr.pc = "returned"
  /\ dwr.arg = 0
  /\ Len(dwr.sent) = RetryCount + 1

\* C34: in the pool with a free client and a single teardown call (Stop() or
\* Wait()), the results channel is closed only once every worker goroutine has
\* exited, so no worker is left that could send on the closed channel: while
\* the channel is closed no worker holds a result to send, and no worker step
\* happens at all.
ResultsClosedAfterWorkers ==
  resultClosed =>
    /\ \A w \in Workers : wpc[w] = "exited"
    /\ \A w \in Workers : wresult[w] = NoResult
    /\ stopPc = "done" \/ waitPc = "done"

NoWorkerStepAfterClose == resultClosed => (wpc' = wpc /\ wresult' = wresult)

C34_NoSendAfterResultsClosed ==
  []ResultsClosedAfterWorkers /\ [][NoWorkerStepAfterClose]_vars

\* Results are closed by a teardown after workers that carried out tasks and
\* delivered a result have exited.
C34_Witness ==
  /\ resultClosed
  /\ \A w \in Workers : wpc[w] = "exited"
  /\ Len(resultChan) > 0
  /\ panicked = "none"

\* C37: in a batch run on a fresh pool (queue capacity one above the number of
\* links read) the task queue never fills: its length stays below its capacity,
\* no Submit call returns false, the retry loop never goes past its first
\* attempt, and no failed-submission goroutine is started.
C37_QueueNeverFills ==
  /\ Len(taskQueue) < queueSize
  /\ submitRet # "false"
  /\ attempt = 0
  /\ retryDelay = RetryDelay
  /\ \A i \in Rows : failPc[i] = "idle"

\* Every link has been submitted and all the tasks are in the queue together.
C37_Witness ==
  /\ idx > totalLinks
  /\ Len(taskQueue) = totalLinks
  /\ submitRet = "true"

\* C38: on either build, once registerCheckers is over, every prefix that
\* GetSupportedLinks returns is in the registry, so a URL that supportedLinks
\* accepts always finds a checker and Adapter does not answer it with the
\* "unsupported link" result.
AcceptedIsRegistered(isDesktop) ==
  /\ AllPrefixes(isDesktop) \subseteq DOMAIN checkers
  /\ \A urlStr \in DefaultUrls :
       supportedLinks(urlStr, isDesktop) => "nil" \notin GetChecker(urlStr)
  /\ (adapterCall.pc # "idle" /\ supportedLinks(adapterCall.urlStr, isDesktop)) =>
       /\ adapterCall.pc = "check" => adapterCall.checker # "nil"
       /\ adapterCall.pc = "returned" =>
            /\ adapterCall.invoked # <<>>
            /\ adapterCall.result.Msg # LinkUnsupportedMsg

ClosedAtMostOnce ==
  /\ ui.closed \subseteq ui'.closed
  /\ (ui.isChecking /\ ~ui'.isChecking /\ ui.pc = "idle" /\ ui'.closed # ui.closed) =>
       (ui.stopChan \notin ui.closed /\ ui'.closed = ui.closed \cup {ui.stopChan})

ObservesStop(r) ==
  (r \in ui.closed) =>
    /\ (ui.runs[r].lpc = "start" /\ ui'.runs[r].lpc = "waiting") =>
         ui'.runs[r].lchan \in ui.closed
    /\ ui.runs[r].wpc = "exec" => ui'.runs[r].wpc # "adapter"
    /\ (ui.runs[r].wpc = "adapter" /\ Len(ui'.runs[r].results) > Len(ui.runs[r].results)) =>
         ui'.runs[r].results[Len(ui'.runs[r].results)].Error \in {Stop, Done}
    /\ ui.runs[r].rpc = "select" => ui'.runs[r].rpc \in {"select", "done"}

C33_StopClosedOnceAndObserved ==
  [][ClosedAtMostOnce /\ \A r \in UiRuns : ObservesStop(r)]_vars

\* C35: while the latest run is being set up, or is running with results still
\* to process, and has not been stopped, isChecking is true.
RunInProgress(r) ==
  /\ r \notin ui.closed
  /\ \/ ui.pc # "idle"
     \/ /\ ui.runs[r].rpc \notin {"off", "done"}
        /\ ui.runs[r].processed < ui.runs[r].n

C35_IsCheckingWhileRunning ==
  (ui.nRuns >= 1 /\ RunInProgress(ui.nRuns)) => ui.isChecking

\* C36: outside the CheckFile call that replaces the table, a row with a final
\* status does not become "doing" again; and no task body has indexed the table
\* outside its bounds (the mutex is then held for ever).
NoRowSetBack ==
  (ui'.pc = ui.pc) =>
    \A i \in DOMAIN ui.data :
      IsFinalTxt(ui.data[i]) => (i \in DOMAIN ui'.data /\ ui'.data[i] # DoingTxt)

C36_FinalRowStaysFinal ==
  [][NoRowSetBack]_vars /\ [](~ui.locked)

\* C39: the result goroutine of every run that was started terminates, and the
\* step that ends it leaves isChecking false.
ResultGoroutineEnds(r) == (ui.runs[r].rpc # "off") ~> (ui.runs[r].rpc = "done")

EndsNotChecking(r) ==
  (ui.runs[r].rpc # "done" /\ ui'.runs[r].rpc = "done") => ~ui'.isChecking

C39_ResultGoroutineTerminates ==
  /\ \A r \in UiRuns : ResultGoroutineEnds(r)
  /\ [][\A r \in UiRuns : EndsNotChecking(r)]_vars

====
